---- MODULE Spec2Model ----
(***************************************************************************)
(* Model of the bike-factory simulator.                                    *)
(*                                                                         *)
(*   src/design.py : BikeFactory / OrderHandler / ProductionScheduler     *)
(*                   (synchronous order scheduling) and FactorySimulation *)
(*                   (SimPy processes order_generator, process_order,     *)
(*                   produce_bike).                                       *)
(*   src/d2.py     : Employee, Machine, MaintenanceManager,               *)
(*                   EmployeeManager (degradation, maintenance and shift  *)
(*                   processes).                                          *)
(*                                                                         *)
(* SimPy itself is modelled as its event queue: entries ordered by         *)
(* (time, priority, event id), popped one at a time by Environment.step.  *)
(* datetime.now() is a wall clock that only moves forward.                 *)
(***************************************************************************)
EXTENDS Integers, Sequences, FiniteSets, TLC

(***************************************************************************)
(* Bounds of the model                                                     *)
(***************************************************************************)
MaxOrders == 2        \* orders ever created (factory API + generator)
MaxQty == 2           \* largest order quantity drawn
MaxCalls == 2         \* direct calls of process_new_order / process_order
MaxWall == 1          \* wall-clock advances of WallStep minutes
WallStep == 40        \* minutes per wall-clock advance
MaxGap == 1           \* largest inter-arrival time drawn by order_generator

(***************************************************************************)
(* Core types                                                              *)
(***************************************************************************)
SkillLevels == {"NOVICE", "INTERMEDIATE", "ADVANCED", "EXPERT"}

\* SkillLevel(Enum) with auto(): .value is 1..4
LevelValue(l) ==
    CASE l = "NOVICE" -> 1
      [] l = "INTERMEDIATE" -> 2
      [] l = "ADVANCED" -> 3
      [] l = "EXPERT" -> 4

Skills == {"FRAME_WELDING", "COMPONENT_ASSEMBLY", "PAINTING", "MAINTENANCE"}

None == "None"

(***************************************************************************)
(* Seed data handed to the factory (add_employee, add_machine,             *)
(* add_material, add_bike_model).  A small factory in the shape of         *)
(* create_sample_factory.                                                  *)
(***************************************************************************)
EmployeeSeq == <<"e1", "e2">>          \* BikeFactory.employees, in add order

EmployeeIds == {EmployeeSeq[i] : i \in 1..Len(EmployeeSeq)}

EmployeeSkills ==
    [e1 |-> [COMPONENT_ASSEMBLY |-> "NOVICE"],
     e2 |-> [FRAME_WELDING |-> "EXPERT", COMPONENT_ASSEMBLY |-> "ADVANCED",
             MAINTENANCE |-> "INTERMEDIATE"]]

MachineSeq == <<"m1", "m2">>           \* BikeFactory.machines, in add order

MachineIds == {MachineSeq[i] : i \in 1..Len(MachineSeq)}

MachineType == [m1 |-> "WeldingStation", m2 |-> "PaintBooth"]

MaintenanceInterval == 2400            \* Machine.maintenance_interval default

MaterialIds == {"tube", "box"}         \* keys of BikeFactory.inventory

\* ProductionStep records: required_skills, required_machines,
\* required_materials, duration
StepDefs ==
    [weld  |-> [skills |-> [FRAME_WELDING |-> "ADVANCED"],
                machines |-> <<"WeldingStation">>,
                materials |-> [tube |-> 2],
                duration |-> 90],
     pack  |-> [skills |-> [COMPONENT_ASSEMBLY |-> "NOVICE"],
                machines |-> <<>>,
                materials |-> [box |-> 1],
                duration |-> 20],
     trim  |-> [skills |-> [COMPONENT_ASSEMBLY |-> "NOVICE"],
                machines |-> <<"WeldingStation", "PaintBooth">>,
                materials |-> [tube |-> 1, box |-> 1],
                duration |-> 15],
     paint |-> [skills |-> [COMPONENT_ASSEMBLY |-> "INTERMEDIATE"],
                machines |-> <<"PaintBooth">>,
                materials |-> [box |-> 1],
                duration |-> 10],
     label |-> [skills |-> [PAINTING |-> "INTERMEDIATE"],
                machines |-> <<>>,
                materials |-> [decal |-> 1],
                duration |-> 5]]

\* BikeFactory.bike_models: id -> ordered list of steps
BikeModels ==
    [welded  |-> <<"weld">>,
     kit     |-> <<"trim", "pack">>,
     painted |-> <<"paint">>,
     labelled |-> <<"label">>, finished |-> <<"pack", "paint">>,
     blank   |-> <<>>]

ModelIds == DOMAIN BikeModels

UnknownModelId == "tandem"             \* an id that is not in bike_models

VARIABLES
    wallclock,      \* datetime.now(), in minutes
    inventory,      \* factory.inventory: material id -> quantity
    empStatus,      \* design.Employee.status
    machStatus,     \* design.Machine.status
    minutesSince,   \* design.Machine.minutes_since_maintenance
    orders,         \* every Order object created: id -> record
    nOrders,        \* number of Order objects created
    registered,     \* keys of OrderHandler.orders
    events,         \* events published on the EventBus, in order
    lastCall,       \* last call of the factory API and its outcome
    calls,          \* direct API calls made so far
    simState,       \* run_simulation: "idle", "running", "returned", "aborted"
    now,            \* env.now
    queue,          \* SimPy event queue
    eid,            \* SimPy event id counter
    genLeft,        \* orders order_generator has still to create
    horizon,        \* the duration given to run_simulation
    cond,           \* per order: its process_order process and all_of condition
    stats,          \* FactorySimulation.simulation_stats
    \* --- src/d2.py ---
    floorNow,       \* env.now of the shop-floor environment
    floorQueue,     \* its SimPy event queue
    floorEid,       \* its event id counter
    workerStatus,   \* d2.Employee.status
    fatigue_level,  \* d2.Employee.fatigue_level
    break_schedule, \* EmployeeManager.break_schedule (NoBreak: no entry)
    machineStatus,  \* d2.Machine.status
    wear_level,     \* d2.Machine.condition.wear_level
    operating_minutes, \* d2.Machine.operating_hours * 60
    last_routine,   \* d2.Machine.maintenance_schedule.last_routine (wall hours)
    maintenance_history, \* d2.Machine.maintenance_history
    scheduled_maintenance, \* MaintenanceManager.scheduled_maintenance
    emergency_queue,       \* MaintenanceManager.emergency_queue
    maintPc,        \* where maintenance_scheduler is suspended, and its locals
    maintenance_stats,     \* MaintenanceManager.maintenance_stats
    wallHours,      \* datetime.now() as seen by d2.Machine, in hours
    statusEdges,    \* worker status assignments made by the last step
    opCalls,        \* direct calls of d2 operations made so far
    calc            \* the last call of a pure method: inputs and results

designVars == <<wallclock, inventory, empStatus, machStatus, minutesSince,
                orders, nOrders, registered, events, lastCall, calls>>

simVars == <<simState, now, queue, eid, genLeft, horizon, cond, stats>>

floorVars == <<floorNow, floorQueue, floorEid, workerStatus, fatigue_level,
               break_schedule, machineStatus, wear_level, operating_minutes,
               last_routine, maintenance_history, scheduled_maintenance,
               emergency_queue, maintPc, maintenance_stats, wallHours,
               statusEdges, opCalls>>

calcVars == <<calc>>

vars == <<designVars, simVars, floorVars, calcVars>>


(***************************************************************************)
(* design.py: ResourceScheduler                                            *)
(***************************************************************************)
\* Employee.has_skill
has_skill(e, skill, level) ==
    /\ skill \in DOMAIN EmployeeSkills[e]
    /\ LevelValue(EmployeeSkills[e][skill]) >= LevelValue(level)

\* design.Employee.is_available: "simplified availability check"
EmployeeIsAvailable(e) == empStatus[e] = "AVAILABLE"

\* design.Machine.is_available
MachineIsAvailable(m) ==
    IF minutesSince[m] >= MaintenanceInterval
    THEN FALSE
    ELSE machStatus[m] = "AVAILABLE"

\* ResourceScheduler.find_available_employees: pool order is kept
find_available_employees(skills_required) ==
    SelectSeq(EmployeeSeq,
              LAMBDA e : /\ \A s \in DOMAIN skills_required :
                               has_skill(e, s, skills_required[s])
                         /\ EmployeeIsAvailable(e))

\* ResourceScheduler.find_available_machines
find_available_machines(machine_types) ==
    SelectSeq(MachineSeq,
              LAMBDA m : /\ \E i \in 1..Len(machine_types) :
                               machine_types[i] = MachineType[m]
                         /\ MachineIsAvailable(m))

\* ResourceScheduler.has_materials
has_materials(materials_required) ==
    \A id \in DOMAIN materials_required :
        /\ id \in DOMAIN inventory
        /\ inventory[id] >= materials_required[id]

(***************************************************************************)
(* design.py: ProductionScheduler.schedule_order                           *)
(***************************************************************************)
RECURSIVE Repeat(_, _)
\* the nested loops "for _ in range(quantity): for step in steps", flattened
Repeat(steps, n) == IF n <= 0 THEN <<>> ELSE steps \o Repeat(steps, n - 1)

\* current_time.replace(minute=current_time.minute + step.duration) raises
\* ValueError unless the new minute is in 0..59
ReplaceMinuteRaises(cur, duration) == (cur % 60) + duration > 59

\* a scheduler that assigns every eligible employee to the task
TakeAll(employees) == employees

\* schedule_order, line 222: employees[:1], "just take the first available
\* employee"
TakeFirst(employees) == SubSeq(employees, 1, 1)

RECURSIVE ScheduleLoop(_, _, _)
\* the body of the loops: todo are the steps still to schedule, cur is
\* current_time, tasks is order.tasks (appended to in place)
ScheduleLoop(todo, cur, tasks) ==
    IF todo = <<>>
    THEN [result |-> "scheduled", tasks |-> tasks]
    ELSE LET step == StepDefs[Head(todo)]
             employees == find_available_employees(step.skills)
             machines == find_available_machines(step.machines)
         IN  IF ~has_materials(step.materials)
             THEN [result |-> "false", tasks |-> tasks]
             ELSE IF employees = <<>>
             THEN [result |-> "false", tasks |-> tasks]
             ELSE IF step.machines # <<>> /\ machines = <<>>
             THEN [result |-> "false", tasks |-> tasks]
             ELSE IF ReplaceMinuteRaises(cur, step.duration)
             THEN [result |-> "ValueError", tasks |-> tasks]
             ELSE ScheduleLoop(Tail(todo), cur + step.duration,
                      Append(tasks,
                             [step |-> Head(todo),
                              start_time |-> cur,
                              end_time |-> cur + step.duration,
                              assigned_employees |-> TakeFirst(employees),
                              assigned_machines |-> machines,
                              completed |-> FALSE]))

\* schedule_order(order): current_time = datetime.now()
schedule_order(order) ==
    ScheduleLoop(Repeat(BikeModels[order.model], order.quantity),
                 wallclock, order.tasks)

\* OrderHandler.process_new_order applied to order o: the new order record,
\* the events published and the outcome seen by the caller
ProcessNewOrderEffect(o, ords, evs) ==
    LET r == schedule_order(ords[o])
    IN  CASE r.result = "scheduled" ->
               [orders |-> [ords EXCEPT ![o].tasks = r.tasks,
                                        ![o].status = "SCHEDULED"],
                events |-> Append(evs, <<"order_scheduled", o>>),
                outcome |-> "scheduled"]
          [] r.result = "false" ->
               [orders |-> [ords EXCEPT ![o].tasks = r.tasks,
                                        ![o].status = "CANCELLED"],
                events |-> Append(evs, <<"order_cancelled", o>>),
                outcome |-> "cancelled"]
          [] r.result = "ValueError" ->
               [orders |-> [ords EXCEPT ![o].tasks = r.tasks],
                events |-> evs,
                outcome |-> "ValueError"]

\* Order.create: a fresh order, status RECEIVED, no tasks
NewOrder(model, quantity) ==
    [model |-> model, quantity |-> quantity, status |-> "RECEIVED",
     tasks |-> <<>>]

NoOrder == [model |-> "blank", quantity |-> 0, status |-> "NONE",
            tasks |-> <<>>]

OrderIds == 1..MaxOrders

Created == 1..nOrders

(***************************************************************************)
(* Actions of the factory API.  The driver calls them while no             *)
(* Environment.run is in progress.                                         *)
(***************************************************************************)
\* BikeFactory.create_order -> OrderHandler.create_order -> publish
\* "order_created" -> OrderHandler.handle -> process_new_order
CreateOrder(model_id, quantity) ==
    /\ simState # "running"
    /\ model_id \in ModelIds
    /\ nOrders < MaxOrders
    /\ LET o == nOrders + 1
           ords == [orders EXCEPT ![o] = NewOrder(model_id, quantity)]
           eff == ProcessNewOrderEffect(o, ords,
                                        Append(events, <<"order_created", o>>))
       IN  /\ nOrders' = o
           /\ registered' = registered \cup {o}
           /\ orders' = eff.orders
           /\ events' = eff.events
           /\ lastCall' = <<"create_order", eff.outcome>>
    /\ UNCHANGED <<wallclock, inventory, empStatus, machStatus, minutesSince,
                   calls, simVars, floorVars, calcVars>>

\* BikeFactory.create_order with an id that is not in bike_models
CreateOrderUnknown ==
    /\ simState # "running"
    /\ UnknownModelId \notin ModelIds
    /\ lastCall # <<"create_order", "None">>
    /\ lastCall' = <<"create_order", "None">>
    /\ UNCHANGED <<wallclock, inventory, empStatus, machStatus, minutesSince,
                   orders, nOrders, registered, events, calls, simVars, floorVars, calcVars>>

\* OrderHandler.process_new_order called (again) on a registered order
ProcessNewOrder(o) ==
    /\ simState # "running"
    /\ o \in registered
    /\ calls < MaxCalls
    /\ LET eff == ProcessNewOrderEffect(o, orders, events)
       IN  /\ orders' = eff.orders
           /\ events' = eff.events
           /\ lastCall' = <<"process_new_order", eff.outcome>>
    /\ calls' = calls + 1
    /\ UNCHANGED <<wallclock, inventory, empStatus, machStatus, minutesSince,
                   nOrders, registered, simVars, floorVars, calcVars>>

\* datetime.now() moves forward between calls
WallClockAdvance ==
    /\ simState # "running"
    /\ wallclock < MaxWall * WallStep
    /\ wallclock' = wallclock + WallStep
    /\ UNCHANGED <<inventory, empStatus, machStatus, minutesSince, orders,
                   nOrders, registered, events, lastCall, calls, simVars, floorVars, calcVars>>


(***************************************************************************)
(* SimPy event queue (Environment.schedule / Environment.step)             *)
(***************************************************************************)
URGENT == 0
NORMAL == 1

\* a queue that runs the event scheduled last first among those due together
BeforeLastFirst(a, b) ==
    \/ a.time < b.time
    \/ a.time = b.time /\ a.prio < b.prio
    \/ a.time = b.time /\ a.prio = b.prio /\ a.id > b.id

\* heap order of SimPy's queue: (time, priority, event id)
Before(a, b) ==
    \/ a.time < b.time
    \/ a.time = b.time /\ a.prio < b.prio
    \/ a.time = b.time /\ a.prio = b.prio /\ a.id < b.id

RECURSIVE Insert(_, _)
Insert(q, ev) ==
    IF q = <<>> THEN <<ev>>
    ELSE IF Before(ev, Head(q)) THEN <<ev>> \o q
    ELSE <<Head(q)>> \o Insert(Tail(q), ev)

Ev(time, prio, id, kind, o, u, ok) ==
    [time |-> time, prio |-> prio, id |-> id, kind |-> kind,
     o |-> o, u |-> u, ok |-> ok]

RECURSIVE InsertAll(_, _)
InsertAll(q, evs) ==
    IF evs = <<>> THEN q ELSE InsertAll(Insert(q, Head(evs)), Tail(evs))

(***************************************************************************)
(* design.py: FactorySimulation                                            *)
(***************************************************************************)
\* self.human_resources: one simpy.Resource per Skill member
HumanResourceKeys == Skills

\* produce_bike, "with self.human_resources.get(step.required_skills[
\* Skill.FRAME_WELDING])": how the first step of a unit begins
RequestEmployee(step) ==
    IF "FRAME_WELDING" \notin DOMAIN step.skills
    THEN "KeyError"
    ELSE IF step.skills["FRAME_WELDING"] \notin HumanResourceKeys
    THEN "TypeError"       \* dict.get gives None; "with None" raises
    ELSE "requested"

\* produce_bike from its start to where it first stops: "returned" (no
\* steps: the loop body never runs), "raised" (the with-statement raises) or
\* "waiting" (suspended on the employee request)
ProduceBikeOutcome(model) ==
    IF BikeModels[model] = <<>>
    THEN "returned"
    ELSE IF RequestEmployee(StepDefs[Head(BikeModels[model])]) = "requested"
    THEN "waiting"
    ELSE "raised"

RECURSIVE SumSteps(_, _)
\* process_order: quantity of material id summed over the steps
SumSteps(steps, id) ==
    IF steps = <<>> THEN 0
    ELSE (IF id \in DOMAIN StepDefs[Head(steps)].materials
          THEN StepDefs[Head(steps)].materials[id] ELSE 0)
         + SumSteps(Tail(steps), id)

RequiredIds(steps) ==
    UNION {DOMAIN StepDefs[steps[i]].materials : i \in 1..Len(steps)}

\* per-unit material requirements, without the "* order.quantity" of line 832
material_requirements_per_unit(order) ==
    [id \in RequiredIds(BikeModels[order.model]) |->
        SumSteps(BikeModels[order.model], id)]

\* process_order: material_requirements
material_requirements(order) ==
    [id \in RequiredIds(BikeModels[order.model]) |->
        SumSteps(BikeModels[order.model], id) * order.quantity]

\* process_order: the shortage test of the checking loop
Short(reqs) ==
    \E id \in DOMAIN reqs : id \notin DOMAIN inventory \/ inventory[id] < reqs[id]

\* process_order: "Reserve materials"
Reserve(inv, reqs) ==
    [id \in DOMAIN inv |->
        IF id \in DOMAIN reqs THEN inv[id] - reqs[id] ELSE inv[id]]

\* a process_order that takes each sufficient material as it meets it, without
\* the check loop that precedes the decrement loop
InventoryTakenPiecewise(inv, reqs) ==
    [id \in DOMAIN inv |->
        IF id \in DOMAIN reqs /\ inv[id] >= reqs[id]
        THEN inv[id] - reqs[id] ELSE inv[id]]

\* a process_order whose reserving loop runs without the checking loop
InventoryTakenUnchecked(inv, reqs) == Reserve(inv, reqs)

\* process_order, lines 834-842: the checking loop returns on the first short
\* material, before the reserving loop has touched the inventory
InventoryAfterOrder(inv, reqs) ==
    IF \E id \in DOMAIN reqs : id \notin DOMAIN inv \/ inv[id] < reqs[id]
    THEN inv
    ELSE Reserve(inv, reqs)

\* a process_order that returns on a shortage without counting the order as
\* cancelled
StatsShortageUncounted(st) ==
    [st EXCEPT !.orders_received = @ + 1]

\* process_order, lines 825 and 837: the counters after an order is received
\* and turned down for a short material
StatsOnShortage(st) ==
    [st EXCEPT !.orders_received = @ + 1, !.orders_cancelled = @ + 1]


NoCond == [count |-> 0, size |-> 0, state |-> "none"]

\* process_order from its start to its first yield (or return)
ProcessOrderStart(ev) ==
    LET o == ev.o
        reqs == material_requirements(orders[o])
        n == orders[o].quantity
    IN  IF Short(reqs)
        THEN /\ stats' = StatsOnShortage(stats)
             /\ inventory' = InventoryAfterOrder(inventory, reqs)
             /\ cond' = [cond EXCEPT ![o].state = "short"]
             /\ queue' = Tail(queue)
             /\ UNCHANGED <<orders, eid>>
        ELSE /\ stats' = [stats EXCEPT !.orders_received = @ + 1]
             /\ inventory' = InventoryAfterOrder(inventory, reqs)
             /\ orders' = [orders EXCEPT ![o].status = "IN_PRODUCTION"]
             /\ cond' = [cond EXCEPT ![o] = [count |-> 0, size |-> n,
                                             state |-> "pending"]]
             \* env.process(produce_bike) per unit; all_of([]) succeeds at once
             /\ queue' = InsertAll(Tail(queue),
                    IF n = 0
                    THEN <<Ev(ev.time, NORMAL, eid + 1, "cond", o, 0, TRUE)>>
                    ELSE [i \in 1..n |->
                            Ev(ev.time, URGENT, eid + i, "bike_init", o, i, TRUE)])
             /\ eid' = eid + (IF n = 0 THEN 1 ELSE n)

\* produce_bike from its start: when it returns or raises, the Process
\* event is scheduled with that outcome
ProduceBikeStart(ev) ==
    LET out == ProduceBikeOutcome(orders[ev.o].model)
    IN  /\ stats' = IF out = "returned"
                    THEN [stats EXCEPT !.bikes_produced = @ + 1]
                    ELSE stats
        /\ queue' = IF out = "waiting"
                    THEN Tail(queue)
                    ELSE Insert(Tail(queue),
                                Ev(ev.time, NORMAL, eid + 1, "bike_done",
                                   ev.o, ev.u, out = "returned"))
        /\ eid' = IF out = "waiting" THEN eid ELSE eid + 1
        /\ UNCHANGED <<inventory, orders, cond, simState>>

\* a condition that is met as soon as one of its events has succeeded
\* (env.any_of)
AnyOfMet(count, size) == count >= 1

\* process_order, line 852: env.all_of(bike_processes) is met when every one
\* of its events has succeeded
AllOfMet(count, size) == count = size

\* a produce_bike Process event is processed: Condition._check of the
\* order's all_of runs unless the condition has already been triggered; a
\* failed event that nobody defuses makes Environment.step raise
BikeDone(ev) ==
    LET c == cond[ev.o]
    IN  IF c.state # "pending"
        THEN /\ simState' = IF ev.ok THEN simState ELSE "aborted"
             /\ queue' = Tail(queue)
             /\ UNCHANGED <<cond, eid>>
        ELSE IF ~ev.ok
        THEN /\ cond' = [cond EXCEPT ![ev.o].state = "failed"]
             /\ queue' = Insert(Tail(queue),
                                Ev(ev.time, NORMAL, eid + 1, "cond", ev.o, 0, FALSE))
             /\ eid' = eid + 1
             /\ UNCHANGED simState
        ELSE IF AllOfMet(c.count + 1, c.size)
        THEN /\ cond' = [cond EXCEPT ![ev.o].count = @ + 1,
                                     ![ev.o].state = "ok"]
             /\ queue' = Insert(Tail(queue),
                                Ev(ev.time, NORMAL, eid + 1, "cond", ev.o, 0, TRUE))
             /\ eid' = eid + 1
             /\ UNCHANGED simState
        ELSE /\ cond' = [cond EXCEPT ![ev.o].count = @ + 1]
             /\ queue' = Tail(queue)
             /\ UNCHANGED <<eid, simState>>

\* the all_of event is processed: process_order resumes after its yield, or
\* has the failure thrown into it, does not catch it and fails in turn
ProcessOrderResume(ev) ==
    IF ev.ok
    THEN /\ orders' = [orders EXCEPT ![ev.o].status = "COMPLETED"]
         /\ stats' = [stats EXCEPT !.orders_completed = @ + 1]
         /\ queue' = Tail(queue)
         /\ UNCHANGED eid
    ELSE /\ queue' = Insert(Tail(queue),
                            Ev(ev.time, NORMAL, eid + 1, "order_fail", ev.o, 0, FALSE))
         /\ eid' = eid + 1
         /\ UNCHANGED <<orders, stats>>

\* order_generator resumes: one more pass of its loop, or its end
OrderGeneratorResume(ev) ==
    IF genLeft = 0
    THEN /\ queue' = Tail(queue)
         /\ UNCHANGED <<orders, nOrders, eid, genLeft>>
    ELSE \E model \in ModelIds, quantity \in 1..MaxQty, gap \in 0..MaxGap :
            LET o == nOrders + 1
            IN  /\ nOrders' = o
                /\ orders' = [orders EXCEPT ![o] = NewOrder(model, quantity)]
                /\ queue' = InsertAll(Tail(queue),
                       <<Ev(ev.time, URGENT, eid + 1, "order_init", o, 0, TRUE),
                         Ev(ev.time + gap, NORMAL, eid + 2, "gen", 0, 0, TRUE)>>)
                /\ eid' = eid + 2
                /\ genLeft' = genLeft - 1

(***************************************************************************)
(* Actions of the simulation                                               *)
(***************************************************************************)
ShortHorizon == 1     \* a run_simulation duration shorter than any step
LongHorizon == 100    \* a run_simulation duration longer than any step

\* the driver starts a process_order process for an order it created through
\* the factory: env.process(sim.process_order(order))
SubmitOrder(o) ==
    /\ simState = "idle"
    /\ o \in Created
    /\ cond[o].state = "none"
    /\ calls < MaxCalls
    /\ calls' = calls + 1
    /\ cond' = [cond EXCEPT ![o].state = "submitted"]
    /\ queue' = Insert(queue, Ev(now, URGENT, eid + 1, "order_init", o, 0, TRUE))
    /\ eid' = eid + 1
    /\ UNCHANGED <<wallclock, inventory, empStatus, machStatus, minutesSince,
                   orders, nOrders, registered, events, lastCall,
                   simState, now, genLeft, horizon, stats, floorVars, calcVars>>

\* run_simulation: env.process(order_generator(...)); env.run(until=duration)
RunSimulation(duration, max_orders) ==
    /\ simState = "idle"
    /\ duration > now
    /\ max_orders <= MaxOrders - nOrders
    /\ simState' = "running"
    /\ horizon' = duration
    /\ genLeft' = max_orders
    /\ queue' = InsertAll(queue,
           <<Ev(now, URGENT, eid + 1, "gen", 0, 0, TRUE),
             Ev(duration, URGENT, eid + 2, "until", 0, 0, TRUE)>>)
    /\ eid' = eid + 2
    /\ UNCHANGED <<wallclock, inventory, empStatus, machStatus, minutesSince,
                   orders, nOrders, registered, events, lastCall, calls, now,
                   cond, stats, floorVars, calcVars>>

\* Environment.step: pop the earliest event, advance env.now, run its
\* callbacks.  The "until" event stops the run; an unhandled failure aborts it.
EnvStep ==
    /\ simState = "running"
    /\ queue # <<>>
    /\ LET ev == Head(queue)
       IN  /\ now' = ev.time
           /\ CASE ev.kind = "until" ->
                     /\ simState' = "returned"
                     /\ queue' = Tail(queue)
                     /\ UNCHANGED <<inventory, orders, nOrders, eid, genLeft,
                                    cond, stats>>
                [] ev.kind = "gen" ->
                     /\ OrderGeneratorResume(ev)
                     /\ UNCHANGED <<inventory, simState, cond, stats>>
                [] ev.kind = "order_init" ->
                     /\ ProcessOrderStart(ev)
                     /\ UNCHANGED <<nOrders, simState, genLeft>>
                [] ev.kind = "bike_init" ->
                     /\ ProduceBikeStart(ev)
                     /\ UNCHANGED <<nOrders, genLeft>>
                [] ev.kind = "bike_done" ->
                     /\ BikeDone(ev)
                     /\ UNCHANGED <<inventory, orders, nOrders, genLeft, stats>>
                [] ev.kind = "cond" ->
                     /\ ProcessOrderResume(ev)
                     /\ UNCHANGED <<inventory, nOrders, simState, genLeft, cond>>
                [] ev.kind = "order_fail" ->
                     /\ simState' = "aborted"
                     /\ queue' = Tail(queue)
                     /\ UNCHANGED <<inventory, orders, nOrders, eid, genLeft,
                                    cond, stats>>
    /\ UNCHANGED <<wallclock, empStatus, machStatus, minutesSince, registered,
                   events, lastCall, calls, horizon, floorVars, calcVars>>

(***************************************************************************)
(* d2.py: seed data of the shop floor                                      *)
(***************************************************************************)
MaxTime == 540        \* env.now up to which the shop-floor events are run
MaxExt == 1           \* external schedule_maintenance calls
MaxOps == 3           \* direct calls of Employee / Machine methods

WorkerSeq == <<"w1", "w2">>            \* factory.employees, in add order

WorkerIds == {WorkerSeq[i] : i \in 1..Len(WorkerSeq)}

WorkerSkills ==
    [w1 |-> [MAINTENANCE |-> "NOVICE", PAINTING |-> "ADVANCED"],
     w2 |-> [MAINTENANCE |-> "INTERMEDIATE", FRAME_WELDING |-> "EXPERT"]]

\* WorkSchedule.shifts: DayOfWeek (0 = Monday) -> Shift or None
WorkerShifts ==
    [w1 |-> [d \in 0..6 |-> IF d <= 4 THEN "MORNING" ELSE None],
     w2 |-> [d \in 0..6 |-> "NIGHT"]]

\* WorkSchedule.vacation_days / sick_days, as days since the epoch
VacationDays == [w1 |-> {}, w2 |-> {}]

SickDays == [w1 |-> {}, w2 |-> {}]

PlantSeq == <<"p1", "p2">>             \* factory.machines, in add order

PlantIds == {PlantSeq[i] : i \in 1..Len(PlantSeq)}

MaintenanceTypes == {"ROUTINE", "PREVENTIVE", "CORRECTIVE", "EMERGENCY"}

\* Machine.maintenance_duration
maintenance_duration ==
    [ROUTINE |-> 120, PREVENTIVE |-> 240, CORRECTIVE |-> 360, EMERGENCY |-> 480]

RoutineInterval == 480                 \* MaintenanceSchedule(routine_interval=480)
ExpectedLifetime == 43800              \* Machine.expected_lifetime
CriticalThreshold == 80                \* MachineCondition.critical_threshold

\* datetime.fromtimestamp(env.now * 60): local time of day and weekday at
\* env.now = 0 (1 January 1970, a Thursday, in a zone five hours east of UTC)
EpochHour == 5
EpochWeekday == 3

NoBreak == -1

(***************************************************************************)
(* d2.py: WorkSchedule, Employee                                           *)
(***************************************************************************)
\* datetime.fromtimestamp(t * 60): date, weekday and hour of env.now = t
DateOf(t) == (EpochHour * 60 + t) \div 1440

WeekdayOf(t) == (EpochWeekday + DateOf(t)) % 7

HourOf(t) == ((EpochHour * 60 + t) \div 60) % 24

\* WorkSchedule.is_available(dt)
ScheduleIsAvailable(w, t) ==
    IF DateOf(t) \in VacationDays[w] \/ DateOf(t) \in SickDays[w]
    THEN FALSE
    ELSE LET shift == WorkerShifts[w][WeekdayOf(t)]
             hour == HourOf(t)
         IN  IF shift = None THEN FALSE
             ELSE IF shift = "MORNING" /\ 6 <= hour /\ hour < 14 THEN TRUE
             ELSE IF shift = "AFTERNOON" /\ 14 <= hour /\ hour < 22 THEN TRUE
             ELSE IF shift = "NIGHT" /\ (hour >= 22 \/ hour < 6) THEN TRUE
             ELSE FALSE

\* d2.Employee.has_skill
WorkerHasSkill(w, skill, level) ==
    /\ skill \in DOMAIN WorkerSkills[w]
    /\ LevelValue(WorkerSkills[w][skill]) >= LevelValue(level)

Min(a, b) == IF a < b THEN a ELSE b

Max(a, b) == IF a > b THEN a ELSE b

\* an increase_fatigue without the min(100, ...) of line 162
increase_fatigue_unclamped(fatigue, work_duration) ==
    fatigue + (work_duration \div 30)

\* Employee.increase_fatigue: fatigue += int(work_duration / 30), capped at 100
increase_fatigue(fatigue, work_duration) ==
    Min(100, fatigue + (work_duration \div 30))

\* Employee.take_break: fatigue -= int(break_duration / 15), floored at 0
take_break(fatigue, break_duration) ==
    Max(0, fatigue - (break_duration \div 15))

\* manage_employee_schedules, line 488: off-shift recovery
off_shift_recovery(fatigue) == Max(0, fatigue - 1)

(***************************************************************************)
(* d2.py: EmployeeManager.manage_employee_schedules, one employee of one   *)
(* pass of its loop.  The record carries the status after each of the      *)
(* three places that assign it.                                            *)
(***************************************************************************)
\* lines 461-466: shift check
AfterShiftCheck(w, status, t) ==
    IF ScheduleIsAvailable(w, t)
    THEN IF status = "OFF_SHIFT" THEN "AVAILABLE" ELSE status
    ELSE IF status \notin {"OFF_SHIFT", "UNAVAILABLE"} THEN "OFF_SHIFT" ELSE status

\* lines 469-476: a break is scheduled
BreakStarts(status, fatigue, brk) ==
    status = "AVAILABLE" /\ fatigue > 70 /\ brk = NoBreak

\* a break that is ended only by a tick after its end time
BreakEndsLate(brk, t) == brk # NoBreak /\ t > brk

\* lines 479-480: the break is over
BreakEnds(brk, t) == brk # NoBreak /\ t >= brk

TickWorker(w, status, fatigue, brk, t) ==
    LET s1 == AfterShiftCheck(w, status, t)
        starts == BreakStarts(s1, fatigue, brk)
        s2 == IF starts THEN "ON_BREAK" ELSE s1
        b2 == IF starts THEN t + 30 ELSE brk
        ends == BreakEnds(b2, t)
        s3 == IF ends THEN "AVAILABLE" ELSE s2
        f3 == IF ends THEN take_break(fatigue, 30) ELSE fatigue
        b3 == IF ends THEN NoBreak ELSE b2
        f4 == IF s3 = "OFF_SHIFT" THEN off_shift_recovery(f3) ELSE f3
    IN  [status |-> s3, fatigue |-> f4, brk |-> b3,
         path |-> <<status, s1, s2, s3>>]

\* the status assignments along a path that change the status
EdgesOf(w, path) ==
    {<<w, path[i], path[i + 1]>> : i \in {j \in 1..(Len(path) - 1) : path[j] # path[j + 1]}}

\* the earliest event of the shop-floor queue belongs to process proc
FloorDue(proc) ==
    /\ floorQueue # <<>>
    /\ Head(floorQueue).kind = proc
    /\ Head(floorQueue).time <= MaxTime

FloorTimeout(delay, proc) ==
    Ev(Head(floorQueue).time + delay, NORMAL, floorEid + 1, proc, 0, 0, TRUE)

\* manage_employee_schedules: one pass over all employees, then
\* yield env.timeout(15)
EmployeeTick ==
    /\ FloorDue("employee_manager")
    /\ LET t == Head(floorQueue).time
           r == [w \in WorkerIds |->
                   TickWorker(w, workerStatus[w], fatigue_level[w],
                              break_schedule[w], t)]
       IN  /\ floorNow' = t
           /\ workerStatus' = [w \in WorkerIds |-> r[w].status]
           /\ fatigue_level' = [w \in WorkerIds |-> r[w].fatigue]
           /\ break_schedule' = [w \in WorkerIds |-> r[w].brk]
           /\ statusEdges' = UNION {EdgesOf(w, r[w].path) : w \in WorkerIds}
    /\ floorQueue' = Insert(Tail(floorQueue), FloorTimeout(15, "employee_manager"))
    /\ floorEid' = floorEid + 1
    /\ UNCHANGED <<machineStatus, wear_level, operating_minutes, last_routine,
                   maintenance_history, scheduled_maintenance, emergency_queue,
                   maintPc, maintenance_stats, wallHours, opCalls>>
    /\ UNCHANGED <<designVars, simVars, calcVars>>

(***************************************************************************)
(* d2.py: Machine                                                          *)
(***************************************************************************)
\* Machine.needs_maintenance: hours since last_routine against the interval
needs_maintenance(lastRoutine) == wallHours - lastRoutine >= RoutineInterval

\* Machine.increase_wear, the wear added: int(hours * (1 + age_factor)) with
\* hours = operating_time / 60 and age_factor = operating_hours /
\* expected_lifetime, operating_hours already increased.  In minutes:
\* t * (60 * L + M) / (3600 * L), written as t \div 60 plus the rest so that
\* the products stay within 32 bits.
wear_increase(opMinutesAfter, operating_time) ==
    (operating_time \div 60)
    + ((60 * ExpectedLifetime * (operating_time % 60)
        + operating_time * opMinutesAfter) \div (3600 * ExpectedLifetime))

\* Machine.increase_wear, the new wear level
increase_wear(wear, opMinutesAfter, operating_time) ==
    Min(100, wear + wear_increase(opMinutesAfter, operating_time))

\* a perform_maintenance that takes the routine amount off for every kind
WearReductionFlat(maintenance_type) == 30

\* Machine.perform_maintenance, lines 271-282: the wear taken off per kind
WearReduction(maintenance_type) ==
    CASE maintenance_type \in {"ROUTINE", "PREVENTIVE"} -> 30
      [] maintenance_type = "CORRECTIVE" -> 50
      [] maintenance_type = "EMERGENCY" -> 70

\* a perform_maintenance without the max(0, ...) of lines 272, 276 and 280
wear_after_maintenance_unclamped(wear, maintenance_type) ==
    wear - WearReduction(maintenance_type)

\* Machine.perform_maintenance, the new wear level
wear_after_maintenance(wear, maintenance_type) ==
    Max(0, wear - WearReduction(maintenance_type))

\* a perform_maintenance without the assignment to last_routine of line 273
last_routine_kept(lastRoutine, maintenance_type) == lastRoutine

\* Machine.perform_maintenance, the new last_routine
last_routine_after(lastRoutine, maintenance_type) ==
    IF maintenance_type \in {"ROUTINE", "PREVENTIVE"} THEN wallHours ELSE lastRoutine

\* Machine.perform_maintenance, the new status: only corrective and emergency
\* maintenance assign it
status_after_maintenance(status, maintenance_type) ==
    IF maintenance_type \in {"CORRECTIVE", "EMERGENCY"} THEN "AVAILABLE" ELSE status

\* MaintenanceLog
MaintenanceLog(m, maintenance_type, w) ==
    [machine_id |-> m, type |-> maintenance_type, performed_by |-> w,
     start_time |-> wallHours, duration |-> maintenance_duration[maintenance_type]]

(***************************************************************************)
(* d2.py: MaintenanceManager                                               *)
(***************************************************************************)
\* MaintenanceManager.maintenance_employees
MaintenanceEmployees ==
    SelectSeq(WorkerSeq, LAMBDA w : "MAINTENANCE" \in DOMAIN WorkerSkills[w])

\* maintenance_scheduler: available_employees for a skill level
AvailableEmployees(level) ==
    SelectSeq(MaintenanceEmployees,
              LAMBDA w : /\ workerStatus[w] = "AVAILABLE"
                         /\ WorkerHasSkill(w, "MAINTENANCE", level))

\* line 398 without its distinction of the kind: NOVICE for every kind
RequiredLevelNovice(maint_type) == "NOVICE"

\* maintenance_scheduler, line 398
RequiredLevel(maint_type) ==
    IF maint_type = "ROUTINE" THEN "NOVICE" ELSE "INTERMEDIATE"

\* schedule_maintenance: the queue an entry goes to
IsEmergency(maintenance_type) == maintenance_type \in {"EMERGENCY", "CORRECTIVE"}

RECURSIVE Scan(_, _, _, _, _)
\* maintenance_scheduler, lines 432-440: the machine scan, given the machine
\* fields as they are when the scan runs
Scan(ms, sched, status, wear, lastRoutine) ==
    IF ms = <<>> THEN sched
    ELSE LET m == Head(ms)
             queued == \E i \in 1..Len(sched) : sched[i][1] = m
             next ==
                 IF needs_maintenance(lastRoutine[m]) /\ status[m] = "AVAILABLE"
                 THEN Append(sched, <<m, "ROUTINE">>)
                 ELSE IF wear[m] > 50 /\ status[m] = "AVAILABLE" /\ ~queued
                 THEN Append(sched, <<m, "PREVENTIVE">>)
                 ELSE sched
         IN  Scan(Tail(ms), next, status, wear, lastRoutine)

\* a scheduler that turns to the emergency queue only when nothing is scheduled
ScheduledFirst(emergencies, scheduled) ==
    emergencies # <<>> /\ scheduled = <<>>

\* maintenance_scheduler, lines 359 and 394: "if self.emergency_queue: ...
\* elif self.scheduled_maintenance: ..."
EmergencyFirst(emergencies, scheduled) ==
    emergencies # <<>>


Idle == [at |-> "top", machine |-> None, type |-> None, employee |-> None]

\* maintenance_scheduler from the top of its loop with an entry queued: the
\* emergency queue first, else the scheduled queue; up to the yield
MaintenanceDispatch ==
    /\ FloorDue("maintenance_scheduler")
    /\ maintPc.at = "top"
    /\ emergency_queue # <<>> \/ scheduled_maintenance # <<>>
    /\ floorNow' = Head(floorQueue).time
    /\ floorEid' = floorEid + 1
    /\ IF EmergencyFirst(emergency_queue, scheduled_maintenance)
       THEN LET machine == Head(emergency_queue)[1]
                maint_type == Head(emergency_queue)[2]
                available == AvailableEmployees("INTERMEDIATE")
            IN  /\ emergency_queue' = Tail(emergency_queue)
                /\ UNCHANGED scheduled_maintenance
                /\ IF available # <<>>
                   THEN /\ workerStatus' = [workerStatus EXCEPT ![available[1]] = "BUSY"]
                        /\ machineStatus' = [machineStatus EXCEPT ![machine] = "MAINTENANCE"]
                        /\ statusEdges' = {<<available[1], "AVAILABLE", "BUSY">>}
                        /\ maintPc' = [at |-> "emergency_job", machine |-> machine,
                                       type |-> maint_type, employee |-> available[1]]
                        /\ floorQueue' = Insert(Tail(floorQueue),
                               FloorTimeout(maintenance_duration[maint_type],
                                            "maintenance_scheduler"))
                   ELSE /\ UNCHANGED <<workerStatus, machineStatus>>
                        /\ statusEdges' = {}
                        /\ maintPc' = [Idle EXCEPT !.at = "retry"]
                        /\ floorQueue' = Insert(Tail(floorQueue),
                               FloorTimeout(30, "maintenance_scheduler"))
       ELSE LET machine == Head(scheduled_maintenance)[1]
                maint_type == Head(scheduled_maintenance)[2]
                available == AvailableEmployees(RequiredLevel(maint_type))
            IN  /\ UNCHANGED emergency_queue
                /\ IF available # <<>> /\ machineStatus[machine] = "AVAILABLE"
                   THEN /\ scheduled_maintenance' = Tail(scheduled_maintenance)
                        /\ workerStatus' = [workerStatus EXCEPT ![available[1]] = "BUSY"]
                        /\ machineStatus' = [machineStatus EXCEPT ![machine] = "MAINTENANCE"]
                        /\ statusEdges' = {<<available[1], "AVAILABLE", "BUSY">>}
                        /\ maintPc' = [at |-> "scheduled_job", machine |-> machine,
                                       type |-> maint_type, employee |-> available[1]]
                        /\ floorQueue' = Insert(Tail(floorQueue),
                               FloorTimeout(maintenance_duration[maint_type],
                                            "maintenance_scheduler"))
                   ELSE /\ scheduled_maintenance' =
                               Append(Tail(scheduled_maintenance), <<machine, maint_type>>)
                        /\ UNCHANGED <<workerStatus, machineStatus>>
                        /\ statusEdges' = {}
                        /\ maintPc' = [Idle EXCEPT !.at = "requeued"]
                        /\ floorQueue' = Insert(Tail(floorQueue),
                               FloorTimeout(60, "maintenance_scheduler"))
    /\ UNCHANGED <<fatigue_level, break_schedule, wear_level, operating_minutes,
                   last_routine, maintenance_history, maintenance_stats,
                   wallHours, opCalls>>
    /\ UNCHANGED <<designVars, simVars, calcVars>>

\* the statistics with the job's downtime added and no counter incremented
StatsDowntimeOnly(st, maint_type) ==
    [st EXCEPT !.total_downtime = @ + maintenance_duration[maint_type]]

\* maintenance_stats after a job of the given kind
StatsAfter(st, maint_type) ==
    LET s1 == [st EXCEPT !.total_downtime = @ + maintenance_duration[maint_type]]
    IN  CASE maint_type = "EMERGENCY" -> [s1 EXCEPT !.emergency_performed = @ + 1]
          [] maint_type = "CORRECTIVE" -> [s1 EXCEPT !.corrective_performed = @ + 1]
          [] maint_type = "ROUTINE" -> [s1 EXCEPT !.routine_performed = @ + 1]
          [] maint_type = "PREVENTIVE" -> [s1 EXCEPT !.preventive_performed = @ + 1]

\* a scheduler that leaves the employee's status as it is when the job ends
employee_status_kept(status) == status

\* maintenance_scheduler, lines 388 and 424: employee.status = AVAILABLE
employee_status_after_job(status) == "AVAILABLE"

\* maintenance_scheduler resumes when the job's timeout fires: statistics,
\* perform_maintenance, the employee is released, the machine scan, and
\* yield env.timeout(60)
MaintenanceFinishJob ==
    /\ FloorDue("maintenance_scheduler")
    /\ maintPc.at \in {"emergency_job", "scheduled_job"}
    /\ LET m == maintPc.machine
           ty == maintPc.type
           w == maintPc.employee
           wear == [wear_level EXCEPT ![m] = wear_after_maintenance(@, ty)]
           lastR == [last_routine EXCEPT ![m] = last_routine_after(@, ty)]
           status == [machineStatus EXCEPT ![m] = status_after_maintenance(@, ty)]
       IN  /\ maintenance_stats' = StatsAfter(maintenance_stats, ty)
           /\ wear_level' = wear
           /\ last_routine' = lastR
           /\ machineStatus' = status
           /\ maintenance_history' =
                  [maintenance_history EXCEPT ![m] = Append(@, MaintenanceLog(m, ty, w))]
           /\ statusEdges' =
                  IF workerStatus[w] = employee_status_after_job(workerStatus[w])
                  THEN {}
                  ELSE {<<w, workerStatus[w],
                          employee_status_after_job(workerStatus[w])>>}
           /\ workerStatus' =
                  [workerStatus EXCEPT ![w] = employee_status_after_job(@)]
           /\ scheduled_maintenance' =
                  Scan(PlantSeq, scheduled_maintenance, status, wear, lastR)
    /\ maintPc' = Idle
    /\ floorNow' = Head(floorQueue).time
    /\ floorQueue' = Insert(Tail(floorQueue), FloorTimeout(60, "maintenance_scheduler"))
    /\ floorEid' = floorEid + 1
    /\ UNCHANGED <<fatigue_level, break_schedule, operating_minutes,
                   emergency_queue, wallHours, opCalls>>
    /\ UNCHANGED <<designVars, simVars, calcVars>>

\* maintenance_scheduler with nothing to dispatch (both queues empty at the
\* top of the loop), or resuming after a deferral: the machine scan, then
\* yield env.timeout(60)
MaintenanceScan ==
    /\ FloorDue("maintenance_scheduler")
    /\ \/ maintPc.at \in {"retry", "requeued"}
       \/ maintPc.at = "top" /\ emergency_queue = <<>> /\ scheduled_maintenance = <<>>
    /\ scheduled_maintenance' =
           Scan(PlantSeq, scheduled_maintenance, machineStatus, wear_level, last_routine)
    /\ maintPc' = Idle
    /\ statusEdges' = {}
    /\ floorNow' = Head(floorQueue).time
    /\ floorQueue' = Insert(Tail(floorQueue), FloorTimeout(60, "maintenance_scheduler"))
    /\ floorEid' = floorEid + 1
    /\ UNCHANGED <<workerStatus, fatigue_level, break_schedule, machineStatus,
                   wear_level, operating_minutes, last_routine,
                   maintenance_history, emergency_queue, maintenance_stats,
                   wallHours, opCalls>>
    /\ UNCHANGED <<designVars, simVars, calcVars>>

\* MaintenanceManager.schedule_maintenance, called from outside the scheduler
ScheduleMaintenance(machine, maintenance_type) ==
    /\ opCalls < MaxExt
    /\ opCalls' = opCalls + 1
    /\ IF IsEmergency(maintenance_type)
       THEN /\ emergency_queue' = Append(emergency_queue, <<machine, maintenance_type>>)
            /\ UNCHANGED scheduled_maintenance
       ELSE /\ scheduled_maintenance' =
                   Append(scheduled_maintenance, <<machine, maintenance_type>>)
            /\ UNCHANGED emergency_queue
    /\ statusEdges' = {}
    /\ UNCHANGED <<floorNow, floorQueue, floorEid, workerStatus, fatigue_level,
                   break_schedule, machineStatus, wear_level, operating_minutes,
                   last_routine, maintenance_history, maintPc, maintenance_stats,
                   wallHours>>
    /\ UNCHANGED <<designVars, simVars, calcVars>>

(***************************************************************************)
(* d2.py: methods of Employee and Machine called directly                  *)
(***************************************************************************)
OpWindow == 90        \* env.now up to which direct calls are made

\* Employee.increase_fatigue(work_duration)
IncreaseFatigue(w, work_duration) ==
    /\ opCalls < MaxOps
    /\ floorNow <= OpWindow
    /\ opCalls' = opCalls + 1
    /\ fatigue_level' =
           [fatigue_level EXCEPT ![w] = increase_fatigue(@, work_duration)]
    /\ statusEdges' = {}
    /\ UNCHANGED <<floorNow, floorQueue, floorEid, workerStatus, break_schedule,
                   machineStatus, wear_level, operating_minutes, last_routine,
                   maintenance_history, scheduled_maintenance, emergency_queue,
                   maintPc, maintenance_stats, wallHours>>
    /\ UNCHANGED <<designVars, simVars, calcVars>>

\* Employee.take_break(break_duration)
TakeBreak(w, break_duration) ==
    /\ opCalls < MaxOps
    /\ floorNow <= OpWindow
    /\ opCalls' = opCalls + 1
    /\ fatigue_level' =
           [fatigue_level EXCEPT ![w] = take_break(@, break_duration)]
    /\ statusEdges' = {}
    /\ UNCHANGED <<floorNow, floorQueue, floorEid, workerStatus, break_schedule,
                   machineStatus, wear_level, operating_minutes, last_routine,
                   maintenance_history, scheduled_maintenance, emergency_queue,
                   maintPc, maintenance_stats, wallHours>>
    /\ UNCHANGED <<designVars, simVars, calcVars>>

\* employee.status = ResourceStatus.UNAVAILABLE, assigned from outside the
\* shift process (the tick of line 465 expects to find such workers)
AssignUnavailable(w) ==
    /\ opCalls < MaxOps
    /\ floorNow <= OpWindow
    /\ workerStatus[w] # "UNAVAILABLE"
    /\ opCalls' = opCalls + 1
    /\ workerStatus' = [workerStatus EXCEPT ![w] = "UNAVAILABLE"]
    /\ statusEdges' = {<<w, workerStatus[w], "UNAVAILABLE">>}
    /\ UNCHANGED <<floorNow, floorQueue, floorEid, fatigue_level, break_schedule,
                   machineStatus, wear_level, operating_minutes, last_routine,
                   maintenance_history, scheduled_maintenance, emergency_queue,
                   maintPc, maintenance_stats, wallHours>>
    /\ UNCHANGED <<designVars, simVars, calcVars>>

\* Machine.increase_wear(operating_time)
IncreaseWear(m, operating_time) ==
    /\ opCalls < MaxOps
    /\ opCalls' = opCalls + 1
    /\ operating_minutes' = [operating_minutes EXCEPT ![m] = @ + operating_time]
    /\ wear_level' =
           [wear_level EXCEPT
              ![m] = increase_wear(@, operating_minutes[m] + operating_time,
                                   operating_time)]
    /\ statusEdges' = {}
    /\ UNCHANGED <<floorNow, floorQueue, floorEid, workerStatus, fatigue_level,
                   break_schedule, machineStatus, last_routine,
                   maintenance_history, scheduled_maintenance, emergency_queue,
                   maintPc, maintenance_stats, wallHours>>
    /\ UNCHANGED <<designVars, simVars, calcVars>>

\* Machine.perform_maintenance(maintenance_type, employee)
PerformMaintenance(m, maintenance_type, w) ==
    /\ opCalls < MaxOps
    /\ opCalls' = opCalls + 1
    /\ wear_level' =
           [wear_level EXCEPT ![m] = wear_after_maintenance(@, maintenance_type)]
    /\ last_routine' =
           [last_routine EXCEPT ![m] = last_routine_after(@, maintenance_type)]
    /\ machineStatus' =
           [machineStatus EXCEPT ![m] = status_after_maintenance(@, maintenance_type)]
    /\ maintenance_history' =
           [maintenance_history EXCEPT
              ![m] = Append(@, MaintenanceLog(m, maintenance_type, w))]
    /\ statusEdges' = {}
    /\ UNCHANGED <<floorNow, floorQueue, floorEid, workerStatus, fatigue_level,
                   break_schedule, operating_minutes, scheduled_maintenance,
                   emergency_queue, maintPc, maintenance_stats, wallHours>>
    /\ UNCHANGED <<designVars, simVars, calcVars>>

WallJump == 240       \* hours by which datetime.now() moves between calls

\* datetime.now() moves forward between two direct calls
WallHoursAdvance ==
    /\ opCalls < MaxOps
    /\ opCalls' = opCalls + 1
    /\ wallHours' = wallHours + WallJump
    /\ statusEdges' = {}
    /\ UNCHANGED <<floorNow, floorQueue, floorEid, workerStatus, fatigue_level,
                   break_schedule, machineStatus, wear_level, operating_minutes,
                   last_routine, maintenance_history, scheduled_maintenance,
                   emergency_queue, maintPc, maintenance_stats>>
    /\ UNCHANGED <<designVars, simVars, calcVars>>

(***************************************************************************)
(* d2.py: pure methods, ProductionStep.calculate_actual_duration and       *)
(* MachineCondition.risk_of_failure                                        *)
(***************************************************************************)
\* no pure method has been called
NoCalc == [op |-> "none"]

MaxDuration == 100    \* largest nominal step duration applied

\* fatigue levels the duration is computed for
FatigueSamples == {0, 50, 80, 100}

\* calculate_actual_duration, lines 315-320: skill_factor in tenths.  It starts
\* at 1.0 and takes the minimum with 1.0 - (employee level - required level)
\* * 0.1 for every required skill the employee has.
SkillTenthsFlat(required_skills, skills) == 10

SkillTenths(required_skills, skills) ==
    LET factors == {10} \cup
            {10 - (LevelValue(skills[s]) - LevelValue(required_skills[s])) :
                s \in DOMAIN required_skills \cap DOMAIN skills}
    IN  CHOOSE x \in factors : \A y \in factors : x <= y

\* calculate_actual_duration, line 323: fatigue_factor in thousandths,
\* 1.0 + (fatigue_level / 100.0) * 0.3
FatigueThousandths(fatigue) == 1000 + 3 * fatigue

\* the inputs <<duration, skill tenths, fatigue>> within MaxDuration + 1 and
\* FatigueSamples for which the double-precision product duration *
\* skill_factor * fatigue_factor of line 326 falls just below the whole number
\* it equals in exact arithmetic (90 * 0.7000000000000001 * 1.0 =
\* 62.99999999999999 and 100 * 1.0 * 1.15 = 114.99999999999999), so that int()
\* gives one less
FloatShortfall == {<<90, 7, 0>>, <<100, 10, 50>>}

\* ProductionStep.calculate_actual_duration
calculate_actual_duration(duration, required_skills, skills, fatigue) ==
    LET tenths == SkillTenths(required_skills, skills)
        exact == (duration * tenths * FatigueThousandths(fatigue)) \div 10000
    IN  IF <<duration, tenths, fatigue>> \in FloatShortfall
        THEN exact - 1
        ELSE exact

\* Employee.skills of a worker who holds FRAME_WELDING at the given level, or
\* does not hold it (None)
SkillsAt(level) ==
    [s \in (IF level = None THEN {} ELSE {"FRAME_WELDING"}) |-> level]

\* calculate_actual_duration of one step for two employees
CalculateActualDuration(duration, required_level, a, b) ==
    /\ calc = NoCalc
    /\ calc' = [op |-> "calculate_actual_duration",
                duration |-> duration,
                required |-> required_level,
                workers |-> <<a, b>>,
                results |->
                   <<calculate_actual_duration(duration, SkillsAt(required_level),
                                               SkillsAt(a.level), a.fatigue),
                     calculate_actual_duration(duration, SkillsAt(required_level),
                                               SkillsAt(b.level), b.fatigue)>>]
    /\ UNCHANGED <<designVars, simVars, floorVars>>

WearScale == 100                       \* wear_level is kept on a 0-100 scale

\* the unit the risk is counted in: 1 / (critical_threshold * 10)
RiskScale == 10 * CriticalThreshold

\* a risk_of_failure without the 0.1 the risk starts from at the threshold
risk_of_failure_no_base(wear) ==
    IF wear >= CriticalThreshold
    THEN Min((9 * RiskScale) \div 10,
             (RiskScale \div 400) * (wear - CriticalThreshold)
                                  * (wear - CriticalThreshold))
    ELSE wear

\* MachineCondition.risk_of_failure, in units of 1 / RiskScale:
\* min(0.90, 0.1 + ((wear - threshold) / 20.0) ** 2) from the threshold on,
\* wear / (threshold * 10) below it
risk_of_failure(wear) ==
    IF wear >= CriticalThreshold
    THEN Min((9 * RiskScale) \div 10,
             (RiskScale \div 10)
             + (RiskScale \div 400) * (wear - CriticalThreshold)
                                    * (wear - CriticalThreshold))
    ELSE wear

\* risk_of_failure of two machine conditions
RiskOfFailure(a, b) ==
    /\ calc = NoCalc
    /\ calc' = [op |-> "risk_of_failure", wear |-> <<a, b>>,
                risk |-> <<risk_of_failure(a), risk_of_failure(b)>>]
    /\ UNCHANGED <<designVars, simVars, floorVars>>

(***************************************************************************)
(* The resource queries of design.py (ResourceScheduler) over the workers  *)
(* and machines of d2.py: the factory of d2.FactorySimulation is a         *)
(* BikeFactory whose pools hold d2.Employee and d2.Machine objects, and    *)
(* the queries call their is_available.                                    *)
(***************************************************************************)
PlantType == [p1 |-> "WeldingStation", p2 |-> "PaintBooth"]   \* machine_type

RECURSIVE CoversFrom(_, _, _)
\* d2.Employee.is_available, lines 138-146: the loop "while current <
\* end_time", stepping 15 minutes
CoversFrom(w, current, end_time) ==
    IF current < end_time
    THEN IF ~ScheduleIsAvailable(w, current)
         THEN FALSE
         ELSE CoversFrom(w, current + 15, end_time)
    ELSE TRUE

\* d2.Employee.is_available(start_time, duration)
WorkerIsAvailable(w, start_time, duration) ==
    IF workerStatus[w] \notin {"AVAILABLE", "ON_BREAK"}
    THEN FALSE
    ELSE CoversFrom(w, start_time, start_time + duration)

\* d2.Machine.is_available(start_time, duration)
PlantIsAvailable(m) ==
    IF machineStatus[m] \notin {"AVAILABLE", "MAINTENANCE"}
    THEN FALSE
    ELSE IF wallHours - last_routine[m] >= RoutineInterval
    THEN FALSE
    ELSE TRUE

\* ResourceScheduler.find_available_employees over factory.employees
find_available_employees_at(skills_required, start_time, duration) ==
    SelectSeq(WorkerSeq,
              LAMBDA w : /\ \A s \in DOMAIN skills_required :
                               WorkerHasSkill(w, s, skills_required[s])
                         /\ WorkerIsAvailable(w, start_time, duration))

\* ResourceScheduler.find_available_machines over factory.machines
find_available_machines_at(machine_types) ==
    SelectSeq(PlantSeq,
              LAMBDA m : /\ \E i \in 1..Len(machine_types) :
                               machine_types[i] = PlantType[m]
                         /\ PlantIsAvailable(m))

\* a call of find_available_employees at the current simulated time; the
\* record keeps the arguments, every worker's status at the call and the result
FindAvailableEmployees(skills_required, duration) ==
    /\ calc = NoCalc
    /\ calc' = [op |-> "find_available_employees",
                skills_required |-> skills_required,
                start_time |-> floorNow,
                duration |-> duration,
                status |-> workerStatus,
                result |-> find_available_employees_at(skills_required,
                                                       floorNow, duration)]
    /\ UNCHANGED <<designVars, simVars, floorVars>>

\* a call of find_available_machines at the current simulated time
FindAvailableMachines(machine_types) ==
    /\ calc = NoCalc
    /\ calc' = [op |-> "find_available_machines",
                machine_types |-> machine_types,
                status |-> machineStatus,
                hours_since |-> [m \in PlantIds |-> wallHours - last_routine[m]],
                result |-> find_available_machines_at(machine_types)]
    /\ UNCHANGED <<designVars, simVars, floorVars>>

(***************************************************************************)
(* Initial states and specifications                                       *)
(***************************************************************************)
InitStats ==
    [orders_received |-> 0, orders_completed |-> 0, orders_cancelled |-> 0,
     bikes_produced |-> 0, total_production_time |-> 0]

InitMaintenanceStats ==
    [routine_performed |-> 0, preventive_performed |-> 0,
     corrective_performed |-> 0, emergency_performed |-> 0, total_downtime |-> 0]

\* BikeFactory and FactorySimulation (design.py) after construction and
\* seeding; nothing is scheduled until run_simulation
DesignSeeded ==
    /\ wallclock = 0
    /\ inventory = [tube |-> 4, box |-> 1]
    /\ minutesSince = [m \in MachineIds |-> 0]
    /\ orders = [o \in OrderIds |-> NoOrder]
    /\ nOrders = 0
    /\ registered = {}
    /\ events = <<>>
    /\ lastCall = <<"init", "init">>
    /\ calls = 0
    /\ simState = "idle"
    /\ now = 0
    /\ queue = <<>>
    /\ eid = 0
    /\ genLeft = 0
    /\ horizon = 0
    /\ cond = [o \in OrderIds |-> NoCond]
    /\ stats = InitStats

\* the shop floor objects (d2.py) with their default field values
FloorDefaults ==
    /\ floorNow = 0
    /\ floorEid = 2
    /\ workerStatus = [w \in WorkerIds |-> "AVAILABLE"]
    /\ break_schedule = [w \in WorkerIds |-> NoBreak]
    /\ machineStatus = [m \in PlantIds |-> "AVAILABLE"]
    /\ maintenance_history = [m \in PlantIds |-> <<>>]
    /\ scheduled_maintenance = <<>>
    /\ emergency_queue = <<>>
    /\ maintPc = Idle
    /\ maintenance_stats = InitMaintenanceStats
    /\ wallHours = 0
    /\ statusEdges = {}
    /\ opCalls = 0
    /\ calc = NoCalc

\* the order side: design.py
Init ==
    /\ DesignSeeded
    /\ empStatus \in {[e1 |-> "AVAILABLE", e2 |-> st] :
                         st \in {"AVAILABLE", "UNAVAILABLE"}}
    /\ machStatus \in {[m1 |-> "AVAILABLE", m2 |-> st] :
                          st \in {"AVAILABLE", "MAINTENANCE"}}
    /\ FloorDefaults
    /\ floorQueue = <<>>
    /\ fatigue_level = [w \in WorkerIds |-> 0]
    /\ wear_level = [m \in PlantIds |-> 0]
    /\ operating_minutes = [m \in PlantIds |-> 0]
    /\ last_routine = [m \in PlantIds |-> 0]

Next ==
    \/ \E model_id \in ModelIds, quantity \in 1..MaxQty :
          CreateOrder(model_id, quantity)
    \/ CreateOrderUnknown
    \/ \E o \in OrderIds : ProcessNewOrder(o)
    \/ WallClockAdvance
    \/ \E o \in OrderIds : SubmitOrder(o)
    \/ \E duration \in {ShortHorizon, LongHorizon}, max_orders \in 0..MaxOrders :
          RunSimulation(duration, max_orders)
    \/ EnvStep

Spec == Init /\ [][Next]_vars

\* BikeFactory.create_order alone: orders are created and scheduled as the
\* wall clock moves on, nothing is simulated
NextSchedule ==
    \/ \E model_id \in ModelIds, quantity \in 1..MaxQty :
          CreateOrder(model_id, quantity)
    \/ WallClockAdvance

SpecSchedule == Init /\ [][NextSchedule]_vars

\* the simulation alone: every order comes from order_generator
NextSim ==
    \/ \E duration \in {ShortHorizon, LongHorizon}, max_orders \in 0..MaxOrders :
          RunSimulation(duration, max_orders)
    \/ EnvStep

SpecSim == Init /\ [][NextSim]_vars

DesignIdle ==
    /\ DesignSeeded
    /\ empStatus = [e \in EmployeeIds |-> "AVAILABLE"]
    /\ machStatus = [m \in MachineIds |-> "AVAILABLE"]

\* the shop floor: d2.FactorySimulation.__init__ has started
\* maintenance_scheduler, then manage_employee_schedules; workers and machines
\* are seeded fresh or used
InitFloor ==
    /\ DesignIdle
    /\ FloorDefaults
    /\ floorQueue = <<Ev(0, URGENT, 1, "maintenance_scheduler", 0, 0, TRUE),
                      Ev(0, URGENT, 2, "employee_manager", 0, 0, TRUE)>>
    /\ fatigue_level \in {[w1 |-> 0, w2 |-> f] : f \in {0, 71}}
    /\ wear_level \in {[p1 |-> x, p2 |-> 0] : x \in {0, 85}}
    /\ operating_minutes = [m \in PlantIds |-> 0]
    /\ last_routine \in {[p1 |-> 0, p2 |-> h] : h \in {0, 0 - RoutineInterval}}

\* the shop floor when schedule_maintenance was called for some machines
\* before the run starts: the entries are in the two queues at time 0
InitMaint ==
    /\ DesignIdle
    /\ floorNow = 0
    /\ floorEid = 2
    /\ workerStatus = [w \in WorkerIds |-> "AVAILABLE"]
    /\ break_schedule = [w \in WorkerIds |-> NoBreak]
    /\ machineStatus = [m \in PlantIds |-> "AVAILABLE"]
    /\ maintenance_history = [m \in PlantIds |-> <<>>]
    /\ scheduled_maintenance \in
           {<<>>, <<<<"p1", "ROUTINE">>>>,
            <<<<"p1", "PREVENTIVE">>, <<"p2", "ROUTINE">>>>,
            <<<<"p2", "ROUTINE">>, <<"p1", "ROUTINE">>>>}
    /\ emergency_queue \in
           {<<>>, <<<<"p2", "CORRECTIVE">>>>,
            <<<<"p1", "EMERGENCY">>, <<"p2", "CORRECTIVE">>>>}
    /\ maintPc = Idle
    /\ maintenance_stats = InitMaintenanceStats
    /\ wallHours = 0
    /\ statusEdges = {}
    /\ opCalls = 0
    /\ calc = NoCalc
    /\ floorQueue = <<Ev(0, URGENT, 1, "maintenance_scheduler", 0, 0, TRUE),
                      Ev(0, URGENT, 2, "employee_manager", 0, 0, TRUE)>>
    /\ fatigue_level = [w \in WorkerIds |-> 0]
    /\ wear_level \in {[p1 |-> x, p2 |-> 0] : x \in {0, 85}}
    /\ operating_minutes = [m \in PlantIds |-> 0]
    /\ last_routine = [m \in PlantIds |-> 0]

NextFloor ==
    \/ MaintenanceDispatch
    \/ MaintenanceFinishJob
    \/ MaintenanceScan
    \/ EmployeeTick
    \/ \E m \in PlantIds, ty \in MaintenanceTypes : ScheduleMaintenance(m, ty)

SpecFloor == InitFloor /\ [][NextFloor]_vars

SpecMaint == InitMaint /\ [][NextFloor]_vars

\* the shift/break process alone, with work and rest applied between ticks
InitShift ==
    /\ DesignIdle
    /\ FloorDefaults
    /\ floorQueue = <<Ev(0, URGENT, 2, "employee_manager", 0, 0, TRUE)>>
    /\ fatigue_level \in [WorkerIds -> {0, 71, 100}]
    /\ wear_level = [m \in PlantIds |-> 0]
    /\ operating_minutes = [m \in PlantIds |-> 0]
    /\ last_routine = [m \in PlantIds |-> 0]

NextShift ==
    \/ EmployeeTick
    \/ \E w \in WorkerIds, d \in {0, 45, 900, 3000} : IncreaseFatigue(w, d)
    \/ \E w \in WorkerIds, d \in {0, 20, 1500} : TakeBreak(w, d)

SpecShift == InitShift /\ [][NextShift]_vars

\* the shift/break process with workers taken off duty from outside
NextDuty ==
    \/ EmployeeTick
    \/ \E w \in WorkerIds : AssignUnavailable(w)

SpecDuty == InitShift /\ [][NextDuty]_vars

\* the shop floor up to one resource query made between two of its events
NextQuery ==
    \/ calc = NoCalc /\ MaintenanceDispatch
    \/ calc = NoCalc /\ MaintenanceFinishJob
    \/ calc = NoCalc /\ MaintenanceScan
    \/ calc = NoCalc /\ EmployeeTick
    \/ /\ calc = NoCalc
       /\ \E m \in PlantIds, ty \in MaintenanceTypes : ScheduleMaintenance(m, ty)
    \/ /\ calc = NoCalc
       /\ \E skills_required \in {[MAINTENANCE |-> "NOVICE"],
                                  [FRAME_WELDING |-> "ADVANCED"]},
             duration \in {0, 15, 30, 45} :
             FindAvailableEmployees(skills_required, duration)
    \/ /\ calc = NoCalc
       /\ \E machine_types \in {<<"WeldingStation">>, <<"PaintBooth">>,
                                <<"WeldingStation", "PaintBooth">>} :
             FindAvailableMachines(machine_types)

SpecQuery == InitFloor /\ [][NextQuery]_vars

\* one machine object at a time: wear and maintenance called directly
InitMachine ==
    /\ DesignIdle
    /\ FloorDefaults
    /\ floorQueue = <<>>
    /\ fatigue_level = [w \in WorkerIds |-> 0]
    /\ wear_level \in [PlantIds -> {0, 20, 95}]
    /\ operating_minutes \in {[p1 |-> 0, p2 |-> x] : x \in {0, 60 * ExpectedLifetime}}
    /\ last_routine = [m \in PlantIds |-> 0]

NextMachine ==
    \/ \E m \in PlantIds, t \in {0, 45, 90, 600} : IncreaseWear(m, t)
    \/ \E m \in PlantIds, ty \in MaintenanceTypes, w \in WorkerIds :
          PerformMaintenance(m, ty, w)
    \/ WallHoursAdvance

SpecMachine == InitMachine /\ [][NextMachine]_vars

\* the pure methods alone: one call per behaviour, with every input within
\* the bounds
InitCalc ==
    /\ DesignIdle
    /\ FloorDefaults
    /\ floorQueue = <<>>
    /\ fatigue_level = [w \in WorkerIds |-> 0]
    /\ wear_level = [m \in PlantIds |-> 0]
    /\ operating_minutes = [m \in PlantIds |-> 0]
    /\ last_routine = [m \in PlantIds |-> 0]

NextCalc ==
    \/ /\ calc = NoCalc
       /\ \E duration \in 1..MaxDuration, required_level \in SkillLevels,
             a \in [level : SkillLevels \cup {None}, fatigue : FatigueSamples],
             b \in [level : SkillLevels \cup {None}, fatigue : FatigueSamples] :
             CalculateActualDuration(duration, required_level, a, b)
    \/ /\ calc = NoCalc
       /\ \E a \in 0..WearScale, b \in 0..WearScale : RiskOfFailure(a, b)

SpecCalc == InitCalc /\ [][NextCalc]_vars

(***************************************************************************)
(* Properties                                                              *)
(***************************************************************************)
Range(seq) == {seq[i] : i \in 1..Len(seq)}

\* [start_time, end_time) of two tasks overlap
Overlap(a, b) == a.start_time < b.end_time /\ b.start_time < a.end_time

\* C1: any two ScheduledTasks whose time intervals overlap have disjoint
\* assigned workers and disjoint assigned machines (no double-booking).
C1_NoDoubleBooking ==
    \A o1 \in Created, o2 \in Created :
        \A i \in 1..Len(orders[o1].tasks), j \in 1..Len(orders[o2].tasks) :
            LET a == orders[o1].tasks[i]
                b == orders[o2].tasks[j]
            IN  (<<o1, i>> # <<o2, j>> /\ Overlap(a, b)) =>
                    /\ Range(a.assigned_employees)
                          \cap Range(b.assigned_employees) = {}
                    /\ Range(a.assigned_machines)
                          \cap Range(b.assigned_machines) = {}

\* process_order is about to run for an order with a short or missing material
ShortOrderDue ==
    /\ simState = "running"
    /\ queue # <<>>
    /\ Head(queue).kind = "order_init"
    /\ Short(material_requirements(orders[Head(queue).o]))

\* C3: when process_order handles an order with a short (or missing) material,
\* every quantity of the inventory is the same after the call as before it.
C3_AllOrNothing == [][ShortOrderDue => inventory' = inventory]_vars

\* C3 witness: process_order has turned an order down although one of the
\* materials it needs was in stock in the needed quantity.
C3_Witness ==
    \E o \in Created :
        /\ cond[o].state = "short"
        /\ \E id \in DOMAIN material_requirements(orders[o]) :
              /\ id \in DOMAIN inventory
              /\ material_requirements(orders[o])[id] > 0
              /\ inventory[id] >= material_requirements(orders[o])[id]

\* C4: an order that process_order turns down for a short material has status
\* cancelled, and orders_cancelled has been incremented once for each such order.
C4_ShortOrderCancelled ==
    /\ \A o \in Created : cond[o].state = "short" => orders[o].status = "CANCELLED"
    /\ stats.orders_cancelled = Cardinality({o \in Created : cond[o].state = "short"})

\* C7: once an order is cancelled or completed, no operation changes its
\* status again.
C7_TerminalStatus ==
    [][\A o \in OrderIds :
          orders[o].status \in {"CANCELLED", "COMPLETED"} =>
              orders'[o].status = orders[o].status]_vars

\* C9: run_simulation reaches its horizon and returns the statistics; no
\* unhandled error aborts the run.
C9_RunReturns == simState # "aborted"

\* C10: one order of quantity 1 for the single-welding-step recipe, with an
\* expert welder, a welding station, enough material and a horizon longer than
\* the step, ends completed with orders_completed = 1 and bikes_produced = 1.
C10_WeldedOrderCompleted ==
    ( /\ simState \in {"returned", "aborted"}
      /\ horizon = LongHorizon
      /\ nOrders = 1
      /\ orders[1].model = "welded"
      /\ orders[1].quantity = 1
      /\ cond[1].state # "none" )
    => /\ orders[1].status = "COMPLETED"
       /\ stats.orders_completed = 1
       /\ stats.bikes_produced = 1

\* a maintenance job is running: the scheduler waits in the timeout of the
\* job's duration, having set the employee BUSY
JobRunning == maintPc.at \in {"emergency_job", "scheduled_job"}

\* C2: while a worker is reserved for a maintenance job, from dispatch until
\* the job's duration has elapsed, the worker's status is busy, whatever the
\* shift/break tick does in between.
C2_ReservedStaysBusy ==
    JobRunning => workerStatus[maintPc.employee] = "BUSY"

\* C5: every worker's fatigue stays within 0..100 under increase_fatigue,
\* take_break and the shift/break ticks.
C5_FatigueBounded ==
    \A w \in WorkerIds : fatigue_level[w] >= 0 /\ fatigue_level[w] <= 100

\* C5 witness: after ticks and direct calls, one worker is at 100 while off
\* shift (off-shift recovery has been followed by an increase_fatigue), and
\* another is at 0 after the break the tick gave it for a fatigue above 70.
C5_Witness ==
    /\ opCalls > 0
    /\ floorNow >= 30
    /\ \E w \in WorkerIds, v \in WorkerIds :
          /\ workerStatus[w] = "OFF_SHIFT"
          /\ fatigue_level[w] = 100
          /\ v # w
          /\ fatigue_level[v] = 0
          /\ break_schedule[v] # NoBreak

\* C6: every machine's wear level stays within 0..100 under increase_wear and
\* perform_maintenance of any kind.
C6_WearBounded ==
    \A m \in PlantIds : wear_level[m] >= 0 /\ wear_level[m] <= 100

\* C6 witness: one machine has been operated up to the upper end of the scale
\* and another has been maintained down to the lower end.
C6_Witness ==
    \E m \in PlantIds, n \in PlantIds :
        /\ m # n
        /\ wear_level[m] = 100
        /\ operating_minutes[m] % 60 # 0 \/ operating_minutes[m] \in {600, 60 * ExpectedLifetime + 600}
        /\ wear_level[n] = 0
        /\ maintenance_history[n] # <<>>

\* C8: every change of a worker's status follows a defined edge of the worker
\* state machine; the tick moves no busy or on-break worker to off_shift and
\* overwrites no busy status.
C8_DefinedEdgesOnly ==
    LET DefinedEdges ==
            {<<"OFF_SHIFT", "AVAILABLE">>, <<"AVAILABLE", "OFF_SHIFT">>,
             <<"AVAILABLE", "ON_BREAK">>, <<"ON_BREAK", "AVAILABLE">>,
             <<"AVAILABLE", "BUSY">>, <<"BUSY", "AVAILABLE">>}
    IN  \A e \in statusEdges : <<e[2], e[3]>> \in DefinedEdges

\* perform_maintenance has just run on machine m: its log is the new last
\* entry of the machine's history
JustMaintained(m) ==
    /\ Len(maintenance_history'[m]) = Len(maintenance_history[m]) + 1
    /\ SubSeq(maintenance_history'[m], 1, Len(maintenance_history[m]))
          = maintenance_history[m]

\* the type of the maintenance that has just run on machine m
JustType(m) == maintenance_history'[m][Len(maintenance_history'[m])].type

\* C11: each ROUTINE maintenance, the second of two in a row included, leaves
\* wear at 0 or above and sets last_routine to the time of that maintenance.
C11_RoutineTwice ==
    [][\A m \in PlantIds :
          (JustMaintained(m) /\ JustType(m) = "ROUTINE") =>
              /\ wear_level'[m] >= 0
              /\ last_routine'[m] = wallHours
              /\ last_routine'[m] =
                     maintenance_history'[m][Len(maintenance_history'[m])].start_time]_vars

\* C11 witness: after datetime.now() has moved on, a machine has had ROUTINE
\* maintenance twice in a row; its wear is 0 and last_routine is the time of
\* the maintenance.
C11_Witness ==
    \E m \in PlantIds :
        /\ Len(maintenance_history[m]) = 2
        /\ \A i \in 1..2 : /\ maintenance_history[m][i].type = "ROUTINE"
                            /\ maintenance_history[m][i].start_time = WallJump
        /\ opCalls = 3
        /\ wear_level[m] = 0
        /\ last_routine[m] = WallJump

\* C12: wear goes down only in perform_maintenance, which lowers it by 30
\* (routine, preventive), 50 (corrective) or 70 (emergency), floored at 0;
\* every other step, increase_wear included, leaves it the same or higher.
C12_WearMonotone ==
    [][\A m \in PlantIds :
          IF JustMaintained(m)
          THEN LET amount == CASE JustType(m) = "ROUTINE" -> 30
                               [] JustType(m) = "PREVENTIVE" -> 30
                               [] JustType(m) = "CORRECTIVE" -> 50
                               [] JustType(m) = "EMERGENCY" -> 70
               IN  wear_level'[m] =
                      (IF wear_level[m] > amount THEN wear_level[m] - amount ELSE 0)
          ELSE wear_level'[m] >= wear_level[m]]_vars

\* C12 witness: a machine has been operated and then had emergency maintenance
\* that took exactly 70 off, and another has had corrective maintenance
\* floored at 0.
C12_Witness ==
    \E m \in PlantIds, n \in PlantIds :
        /\ m # n
        /\ operating_minutes[m] = 90
        /\ Len(maintenance_history[m]) = 1
        /\ maintenance_history[m][1].type = "EMERGENCY"
        /\ wear_level[m] = 26
        /\ Len(maintenance_history[n]) = 1
        /\ maintenance_history[n][1].type = "CORRECTIVE"
        /\ wear_level[n] = 0

\* C13: for a step requiring one skill at INTERMEDIATE and any positive
\* duration, an EXPERT at fatigue 0 takes strictly less than a worker at the
\* minimum level at fatigue 80, and each result is the integer part of
\* duration * (1 - 0.1 * (level - required)) * (1 + 0.3 * fatigue / 100).
C13_DurationScaling ==
    ( /\ calc.op = "calculate_actual_duration"
      /\ calc.required = "INTERMEDIATE"
      /\ calc.workers[1] = [level |-> "EXPERT", fatigue |-> 0]
      /\ calc.workers[2] = [level |-> "INTERMEDIATE", fatigue |-> 80] )
    => /\ calc.results[1] < calc.results[2]
       /\ \A i \in 1..2 :
             calc.results[i] =
                (calc.duration
                   * (10 - (LevelValue(calc.workers[i].level)
                              - LevelValue(calc.required)))
                   * (1000 + 3 * calc.workers[i].fatigue)) \div 10000

\* C13 witness: a 90-minute step requiring INTERMEDIATE takes the fresh expert
\* 72 minutes and the tired worker at the minimum level 111.
C13_Witness ==
    /\ calc.op = "calculate_actual_duration"
    /\ calc.required = "INTERMEDIATE"
    /\ calc.duration = 90
    /\ calc.workers = <<[level |-> "EXPERT", fatigue |-> 0],
                        [level |-> "INTERMEDIATE", fatigue |-> 80]>>
    /\ calc.results = <<72, 111>>

\* C14: with threshold 80, risk_of_failure is non-decreasing in wear, is at
\* most 0.90, is strictly greater at or above the threshold than below it,
\* and below the threshold equals wear / (80 * 10).
C14_FailureRisk ==
    calc.op = "risk_of_failure" =>
        /\ calc.wear[1] <= calc.wear[2] => calc.risk[1] <= calc.risk[2]
        /\ 10 * calc.risk[1] <= 9 * RiskScale
        /\ (calc.wear[1] >= 80 /\ calc.wear[2] < 80) => calc.risk[1] > calc.risk[2]
        /\ calc.wear[1] < 80 => calc.risk[1] * (80 * 10) = calc.wear[1] * RiskScale

\* C14 witness: wear 85 against wear 79, risks 0.1625 and 0.09875.
C14_Witness ==
    /\ calc.op = "risk_of_failure"
    /\ calc.wear = <<85, 79>>
    /\ calc.risk = <<130, 79>>
    /\ RiskScale = 800

\* a process of the shop floor is resumed in this step
FloorResumed == floorQueue' # floorQueue

C16_EmergencyPriority ==
    [][(maintPc.at = "top" /\ maintPc'.at \in {"scheduled_job", "requeued"}) =>
          emergency_queue = <<>>]_vars

\* C16 witness: an emergency job has been dispatched while a routine or
\* preventive entry, queued before it, is still waiting.
C16_Witness ==
    /\ maintPc.at = "emergency_job"
    /\ scheduled_maintenance # <<>>
    /\ emergency_queue = <<>>

\* C17: an emergency or corrective entry for which no worker is found is
\* still in the emergency queue after the scheduler has looked at it.
C17_DeferredNotLost ==
    [][(maintPc.at = "top" /\ maintPc'.at = "retry") =>
          /\ Len(emergency_queue') >= Len(emergency_queue)
          /\ \E i \in 1..Len(emergency_queue') :
                emergency_queue'[i] = Head(emergency_queue)]_vars

\* a step of the order's recipe has no eligible worker, or requires machines
\* and has no eligible machine
Unresourced(order) ==
    /\ order.quantity > 0
    /\ \E i \in 1..Len(BikeModels[order.model]) :
          LET step == StepDefs[BikeModels[order.model][i]]
          IN  \/ find_available_employees(step.skills) = <<>>
              \/ step.machines # <<>> /\ find_available_machines(step.machines) = <<>>

\* C18: an order with a step that cannot be resourced ends cancelled, is never
\* marked scheduled, and an order_cancelled event is published for it.
C18_UnresourcedCancelled ==
    simState = "idle" =>
        \A o \in registered :
            Unresourced(orders[o]) =>
                /\ orders[o].status = "CANCELLED"
                /\ <<"order_cancelled", o>> \in Range(events)
                /\ <<"order_scheduled", o>> \notin Range(events)

\* orders_received = orders_completed + orders_cancelled + the number of
\* orders in production
StatsBalanced ==
    stats.orders_received =
        stats.orders_completed + stats.orders_cancelled
        + Cardinality({o \in Created : orders[o].status = "IN_PRODUCTION"})

\* the run is over and order o has units that did not complete
UnfinishedAtEnd(o) ==
    /\ simState \in {"returned", "aborted"}
    /\ cond[o].state \in {"pending", "failed"}

\* C19: throughout a run orders_received = orders_completed + orders_cancelled
\* + orders in production, no counter decreases, and an order whose units have
\* not all completed when the run ends is still in production.
C19_StatsConsistent ==
    [][/\ StatsBalanced
       /\ StatsBalanced'
       /\ stats'.orders_received >= stats.orders_received
       /\ stats'.orders_completed >= stats.orders_completed
       /\ stats'.orders_cancelled >= stats.orders_cancelled
       /\ stats'.bikes_produced >= stats.bikes_produced
       /\ \A o \in OrderIds :
             UnfinishedAtEnd(o)' => orders'[o].status = "IN_PRODUCTION"]_vars

\* C19 witness: a run has ended with two orders received: one cancelled for a
\* short material and one still in production with a unit that did not complete.
C19_Witness ==
    /\ simState \in {"returned", "aborted"}
    /\ stats.orders_received = 2
    /\ stats.orders_completed = 0
    /\ stats.orders_cancelled = 1
    /\ \E o \in Created : UnfinishedAtEnd(o) /\ orders[o].status = "IN_PRODUCTION"

\* C20: every change of an order's status follows an edge of the order state
\* machine; in particular an order enters in_production only from scheduled.
C20_OrderEdges ==
    [][\A o \in OrderIds :
          orders'[o].status # orders[o].status =>
              \/ orders[o].status = "NONE"
                    /\ orders'[o].status \in {"RECEIVED", "SCHEDULED", "CANCELLED"}
              \/ <<orders[o].status, orders'[o].status>> \in
                    {<<"RECEIVED", "SCHEDULED">>, <<"SCHEDULED", "IN_PRODUCTION">>,
                     <<"IN_PRODUCTION", "COMPLETED">>, <<"RECEIVED", "CANCELLED">>,
                     <<"SCHEDULED", "CANCELLED">>, <<"IN_PRODUCTION", "CANCELLED">>}]_vars

\* process_order is about to run for an order none of whose materials is short
StockedOrderDue ==
    /\ simState = "running"
    /\ queue # <<>>
    /\ Head(queue).kind = "order_init"
    /\ ~Short(material_requirements(orders[Head(queue).o]))

\* C21: when no material is short, process_order takes (sum over the steps of
\* the step's quantity) * order.quantity off every required material and sets
\* the order in_production, check and decrement being one step: no other
\* order's process runs in between, and no quantity ever goes below 0.
C21_AtomicReserve ==
    [][/\ StockedOrderDue =>
            LET o == Head(queue).o
                steps == BikeModels[orders[o].model]
            IN  /\ \A id \in DOMAIN inventory :
                      inventory'[id] =
                          inventory[id] - SumSteps(steps, id) * orders[o].quantity
                /\ orders'[o].status = "IN_PRODUCTION"
                /\ \A p \in OrderIds \ {o} : orders'[p] = orders[p]
       /\ \A id \in DOMAIN inventory : inventory'[id] >= 0]_vars

\* C21 witness: two orders came in at the same simulated time; the first, two
\* welded bikes, took all four tubes and is in production, and the second found
\* the stock short.
C21_Witness ==
    \E o \in Created, p \in Created :
        /\ orders[o].model = "welded"
        /\ orders[o].quantity = 2
        /\ orders[o].status = "IN_PRODUCTION"
        /\ inventory["tube"] = 0
        /\ inventory["box"] = 1
        /\ cond[p].state = "short"
        /\ now = 0

RECURSIVE CompletedQuantity(_)
\* the sum of the quantities of the completed orders among orders 1..n
CompletedQuantity(n) ==
    IF n = 0 THEN 0
    ELSE (IF orders[n].status = "COMPLETED" THEN orders[n].quantity ELSE 0)
         + CompletedQuantity(n - 1)

\* C22: an order becomes completed, and orders_completed goes up by one, only
\* when each of its order.quantity units has finished; bikes_produced is at
\* least the sum of the quantities of the completed orders.
C22_CompletedAfterUnits ==
    [][/\ \A o \in OrderIds :
             (orders'[o].status = "COMPLETED" /\ orders[o].status # "COMPLETED") =>
                 /\ cond[o].count = orders[o].quantity
                 /\ cond[o].state = "ok"
                 /\ stats'.orders_completed = stats.orders_completed + 1
       /\ stats'.orders_completed # stats.orders_completed =>
             \E o \in OrderIds :
                 orders'[o].status = "COMPLETED" /\ orders[o].status # "COMPLETED"
       /\ stats'.bikes_produced >= CompletedQuantity(MaxOrders)']_vars

\* C22 witness: an order of two units is completed after both units finished,
\* and bikes_produced is 2.
C22_Witness ==
    \E o \in Created :
        /\ orders[o].status = "COMPLETED"
        /\ orders[o].quantity = 2
        /\ cond[o].count = 2
        /\ stats.orders_completed = 1
        /\ stats.bikes_produced = 2

\* C23: when a maintenance job of any kind finishes, the worker and the machine
\* it reserved are both released to available.
C23_ReleasedAfterJob ==
    [][(JobRunning /\ ~JobRunning') =>
          /\ workerStatus'[maintPc.employee] = "AVAILABLE"
          /\ machineStatus'[maintPc.machine] = "AVAILABLE"]_vars

\* the shift/break tick runs in this step
TickRuns == FloorDue("employee_manager") /\ floorEid' = floorEid + 1

\* C24: at the end of every shift/break tick, every worker whose status is
\* available is inside their shift calendar at the tick's time.
C24_AvailableOnShift ==
    [][TickRuns =>
          \A w \in WorkerIds :
              workerStatus'[w] = "AVAILABLE" => ScheduleIsAvailable(w, floorNow')]_vars

\* C25: a worker goes on break only in a tick, from available, with fatigue
\* above 70 and no break scheduled, for 30 minutes; the break ends at the first
\* tick at or after its end time and not before: the worker becomes available,
\* the entry is removed and fatigue goes down by exactly 2, not below 0.
C25_BreakCycle ==
    [][\A w \in WorkerIds :
          /\ (workerStatus'[w] = "ON_BREAK" /\ workerStatus[w] # "ON_BREAK") =>
                /\ TickRuns
                /\ <<w, "AVAILABLE", "ON_BREAK">> \in statusEdges'
                /\ fatigue_level[w] > 70
                /\ break_schedule[w] = NoBreak
                /\ break_schedule'[w] = floorNow' + 30
          /\ (TickRuns /\ break_schedule[w] # NoBreak) =>
                IF floorNow' >= break_schedule[w]
                THEN /\ workerStatus'[w] = "AVAILABLE"
                     /\ break_schedule'[w] = NoBreak
                     /\ fatigue_level'[w] =
                           (IF fatigue_level[w] >= 2 THEN fatigue_level[w] - 2 ELSE 0)
                ELSE break_schedule'[w] = break_schedule[w]
          /\ break_schedule'[w] # NoBreak => break_schedule'[w] > floorNow']_vars

\* C25 witness: a worker who started at fatigue 71 was sent on break by the
\* tick at 0 and is back, available, at fatigue 69 after the tick at 30.
C25_Witness ==
    \E w \in WorkerIds :
        /\ floorNow = 30
        /\ opCalls = 0
        /\ workerStatus[w] = "AVAILABLE"
        /\ break_schedule[w] = NoBreak
        /\ fatigue_level[w] = 69

\* C26: a shift/break tick never changes the status of a worker whose status
\* is unavailable, not even the tick at which a break scheduled for that worker
\* earlier reaches its end time.
C26_UnavailableKept ==
    [][TickRuns =>
          \A w \in WorkerIds :
              workerStatus[w] = "UNAVAILABLE" => workerStatus'[w] = "UNAVAILABLE"]_vars

\* C27: every worker returned by the eligible-worker query has status
\* available at the time of the query.
C27_EligibleAvailable ==
    calc.op = "find_available_employees" =>
        \A w \in Range(calc.result) : calc.status[w] = "AVAILABLE"

\* C28: every machine returned by the eligible-machine query is of a requested
\* type, has status available and has not reached its maintenance interval.
C28_EligibleMachine ==
    calc.op = "find_available_machines" =>
        \A m \in Range(calc.result) :
            /\ PlantType[m] \in Range(calc.machine_types)
            /\ calc.status[m] = "AVAILABLE"
            /\ calc.hours_since[m] < RoutineInterval

\* C29: every worker returned for a task from at_time of the given duration
\* is inside their shift calendar at at_time, at every 15-minute sample of the
\* span and at at_time + duration, for every duration >= 0.
C29_CalendarCoversSpan ==
    calc.op = "find_available_employees" =>
        \A w \in Range(calc.result) :
            \A k \in 0..calc.duration :
                (k % 15 = 0 \/ k = calc.duration) =>
                    ScheduleIsAvailable(w, calc.start_time + k)

\* employee e holds every skill the step requires at or above the required
\* level and has status available
Eligible(e, step) ==
    /\ \A s \in DOMAIN step.skills :
          /\ s \in DOMAIN EmployeeSkills[e]
          /\ LevelValue(EmployeeSkills[e][s]) >= LevelValue(step.skills[s])
    /\ empStatus[e] = "AVAILABLE"

\* C30: every ScheduledTask has exactly one assigned worker; that worker is
\* eligible for the step (holds every required skill at or above the required
\* level) and no worker earlier in the pool is.
C30_FirstEligibleWorker ==
    \A o \in Created :
        \A i \in 1..Len(orders[o].tasks) :
            LET task == orders[o].tasks[i]
                step == StepDefs[task.step]
            IN  /\ Len(task.assigned_employees) = 1
                /\ Eligible(task.assigned_employees[1], step)
                /\ \A j \in 1..Len(EmployeeSeq) :
                      EmployeeSeq[j] = task.assigned_employees[1] =>
                          \A k \in 1..(j - 1) : ~Eligible(EmployeeSeq[k], step)

\* C30 witness: an order has a packing task given to e1, the first of two
\* eligible workers, and a painting task given to e2, the first worker skilled
\* enough after e1 was passed over.
C30_Witness ==
    \E o \in Created :
        /\ orders[o].model = "finished"
        /\ Len(orders[o].tasks) >= 2
        /\ orders[o].tasks[1].step = "pack"
        /\ orders[o].tasks[1].assigned_employees = <<"e1">>
        /\ Eligible("e2", StepDefs["pack"])
        /\ orders[o].tasks[2].step = "paint"
        /\ orders[o].tasks[2].assigned_employees = <<"e2">>
        /\ ~Eligible("e1", StepDefs["paint"])

\* the number of entries machine m has in a routine/preventive queue
EntriesOf(q, m) == Cardinality({i \in 1..Len(q) : q[i][1] = m})

\* C31: the routine/preventive queue is first in, first out: the scheduler
\* starts the entry at the head, and an entry it has to defer keeps its place
\* ahead of the entries enqueued after it.
C31_ScheduledFifo ==
    [][(maintPc.at = "top" /\ maintPc'.at \in {"scheduled_job", "requeued"}) =>
          IF maintPc'.at = "scheduled_job"
          THEN /\ <<maintPc'.machine, maintPc'.type>> = Head(scheduled_maintenance)
               /\ scheduled_maintenance' = Tail(scheduled_maintenance)
          ELSE Head(scheduled_maintenance') = Head(scheduled_maintenance)]_vars

\* C32: the machine scan adds no entry for a machine that already has one in
\* the routine/preventive queue.
C32_ScanNoDuplicate ==
    [][opCalls' = opCalls =>
          \A m \in PlantIds :
              EntriesOf(scheduled_maintenance, m) >= 1 =>
                  EntriesOf(scheduled_maintenance', m)
                      <= EntriesOf(scheduled_maintenance, m)]_vars

\* C33: every maintenance job is given to a worker whose status is AVAILABLE
\* at the dispatch and who holds MAINTENANCE at NOVICE or above for a routine
\* job and at INTERMEDIATE or above for a preventive, corrective or emergency
\* job; every log in a machine's history names such a worker.
C33_SkilledAvailableWorker ==
    [][LET Qualified(w, ty) ==
               /\ "MAINTENANCE" \in DOMAIN WorkerSkills[w]
               /\ LevelValue(WorkerSkills[w]["MAINTENANCE"]) >=
                      (IF ty = "ROUTINE" THEN 1 ELSE 2)
       IN  /\ (maintPc.at = "top" /\ maintPc'.at \in {"emergency_job", "scheduled_job"}) =>
                 /\ workerStatus[maintPc'.employee] = "AVAILABLE"
                 /\ Qualified(maintPc'.employee, maintPc'.type)
           /\ \A m \in PlantIds : \A i \in 1..Len(maintenance_history'[m]) :
                 Qualified(maintenance_history'[m][i].performed_by,
                           maintenance_history'[m][i].type)]_vars

\* a preventive job runs with the INTERMEDIATE worker although the NOVICE
\* worker, first in the list, was AVAILABLE
C33_Witness ==
    /\ maintPc.at = "scheduled_job"
    /\ maintPc.type = "PREVENTIVE"
    /\ maintPc.employee = "w2"
    /\ workerStatus["w1"] = "AVAILABLE"
    /\ statusEdges = {<<"w2", "AVAILABLE", "BUSY">>}

RECURSIVE FlattenLogs(_, _)
\* the logs of the machines ms, one history after the other
FlattenLogs(ms, history) ==
    IF ms = <<>> THEN <<>>
    ELSE history[Head(ms)] \o FlattenLogs(Tail(ms), history)

RECURSIVE SumDurations(_)
\* the sum of the durations of the logs
SumDurations(logs) ==
    IF logs = <<>> THEN 0 ELSE Head(logs).duration + SumDurations(Tail(logs))

\* every log of every machine, machine by machine
AllLogs == FlattenLogs(PlantSeq, maintenance_history)

\* C34: a machine's history only grows at its end, by exactly one log when a
\* job completes and not otherwise; the four *_performed counters add up to
\* the number of logs of all machines and total_downtime to the sum of their
\* durations.
C34_HistoryAppendOnly ==
    [][LET finished == maintPc.at \in {"emergency_job", "scheduled_job"}
                           /\ maintPc'.at = "top"
           logs == AllLogs'
       IN  /\ \A m \in PlantIds :
                 LET old == maintenance_history[m]
                     new == maintenance_history'[m]
                 IN  /\ Len(new) >= Len(old)
                     /\ SubSeq(new, 1, Len(old)) = old
                     /\ Len(new) = Len(old) +
                            (IF finished /\ m = maintPc.machine THEN 1 ELSE 0)
           /\ maintenance_stats'.emergency_performed
                  + maintenance_stats'.corrective_performed
                  + maintenance_stats'.routine_performed
                  + maintenance_stats'.preventive_performed = Len(logs)
           /\ maintenance_stats'.total_downtime = SumDurations(logs)]_vars

\* two jobs of different kinds on different machines are in the histories
C34_Witness ==
    /\ Len(maintenance_history["p1"]) >= 1
    /\ Len(maintenance_history["p2"]) >= 1
    /\ maintenance_history["p1"][1].type # maintenance_history["p2"][1].type
    /\ maintenance_stats.total_downtime > 0
    /\ maintPc.at = "top"

\* C35: an order cancelled because its scheduling failed has no scheduled
\* task attached to it.
C35_NoPartialSchedule ==
    \A o \in registered :
        orders[o].status = "CANCELLED" => orders[o].tasks = <<>>

\* C37: every scheduled task has, for each machine type its step requires, at
\* least one assigned machine of that type.
C37_EveryMachineType ==
    \A o \in registered :
        \A i \in 1..Len(orders[o].tasks) :
            LET task == orders[o].tasks[i]
                required == StepDefs[task.step].machines
            IN  \A k \in 1..Len(required) :
                    \E j \in 1..Len(task.assigned_machines) :
                        MachineType[task.assigned_machines[j]] = required[k]

\* C40: when create_order has been called with a known recipe id, the order
\* it created is registered, its status is SCHEDULED or CANCELLED, and exactly
\* one order_scheduled or order_cancelled event follows its order_created.
C40_CreateOrderSynchronous ==
    (lastCall[1] = "create_order" /\ lastCall[2] # "None") =>
        LET o == nOrders
            settled == {i \in 1..Len(events) :
                           events[i] \in {<<"order_scheduled", o>>,
                                          <<"order_cancelled", o>>}}
        IN  /\ o \in registered
            /\ orders[o].status \in {"SCHEDULED", "CANCELLED"}
            /\ Cardinality(settled) = 1
            /\ \A i \in settled :
                   \E j \in 1..(i - 1) : events[j] = <<"order_created", o>>

\* C36: the quantity of every material in the inventory is at least 0 in
\* every state of a run, whatever orders have been processed and turned down.
C36_InventoryNonNegative ==
    \A id \in DOMAIN inventory : inventory[id] >= 0

\* one order took the last box and is in production, and another order, that
\* needed a box too, was turned down
C36_Witness ==
    \E o \in Created, p \in Created :
        /\ orders[o].status \in {"IN_PRODUCTION", "COMPLETED"}
        /\ "box" \in DOMAIN material_requirements(orders[o])
        /\ inventory["box"] = 0
        /\ cond[p].state = "short"
        /\ "box" \in DOMAIN material_requirements(orders[p])
        /\ stats.orders_received = 2

\* C38: at most one maintenance job is in progress: at most one worker is
\* BUSY, and a worker is BUSY only while the scheduler waits for the end of
\* the job it gave to that worker.
C38_OneJobAtATime ==
    /\ Cardinality({w \in WorkerIds : workerStatus[w] = "BUSY"}) <= 1
    /\ \A w \in WorkerIds :
          workerStatus[w] = "BUSY" =>
              /\ maintPc.at \in {"emergency_job", "scheduled_job"}
              /\ maintPc.employee = w

\* a job is in progress while another worker with the MAINTENANCE skill is
\* AVAILABLE and qualified for the entry at the head of the queue
C38_Witness ==
    /\ maintPc.at \in {"emergency_job", "scheduled_job"}
    /\ workerStatus[maintPc.employee] = "BUSY"
    /\ Len(scheduled_maintenance) + Len(emergency_queue) >= 2
    /\ scheduled_maintenance # <<>>
    /\ \E w \in WorkerIds \ {maintPc.employee} :
          /\ workerStatus[w] = "AVAILABLE"
          /\ WorkerHasSkill(w, "MAINTENANCE",
                            RequiredLevel(Head(scheduled_maintenance)[2]))
          /\ machineStatus[Head(scheduled_maintenance)[1]] = "AVAILABLE"

\* C39: every unit that produce_bike starts runs to its end, holding and
\* releasing its slots on the way: no produce_bike process of an order ends
\* with an error, so the all_of condition over an order's units never fails.
C39_UnitsFinish ==
    \A o \in Created : cond[o].state # "failed"

====
